---- MODULE Spec2Model ----
(***************************************************************************)
(* Model of the object-detection backend of the AMS projected-target game  *)
(* platform (src/ams/object_detection_backend.py), its colour-blob         *)
(* detector (src/ams/object_detection/color_blob.py) and the calibration   *)
(* manager (src/calibration/calibration_manager.py).                       *)
(*                                                                         *)
(* Units: positions are camera pixels, velocities are pixels per second,   *)
(* time is counted in ticks of 10 ms (TicksPerSecond ticks to the second). *)
(* Euclidean distances and speeds are compared through their squares, so   *)
(* that every comparison of the code is an exact integer comparison.       *)
(* A float is a record [k, n, d]: k = "fin" is the rational n/d (d > 0),   *)
(* k = "inf" is +/-Infinity (sign in n), k = "nan" is NaN.                  *)
(***************************************************************************)
EXTENDS Integers, Sequences, FiniteSets, TLC

VARIABLES
    impact_mode,          \* ObjectDetectionBackend.impact_mode
    detector,             \* class of ObjectDetectionBackend.detector
    has_manager,          \* ObjectDetectionBackend.calibration_manager is not None
    calibration,          \* CalibrationManager._calibration (NoCalibration = None)
    H_cam_to_proj,        \* CalibrationManager._H_cam_to_proj (NoMatrix = None)
    H_proj_to_cam,        \* CalibrationManager._H_proj_to_cam (NoMatrix = None)
    camera_center_x,      \* ObjectDetectionBackend._camera_center_x (None = NoneT)
    tracked_objects,      \* ObjectDetectionBackend.tracked_objects, in dict order
    next_object_id,       \* ObjectDetectionBackend.next_object_id
    handled_objects,      \* ObjectDetectionBackend._handled_objects
    prev_detections,      \* ColorBlobDetector.prev_detections
    prev_timestamp,       \* ColorBlobDetector.prev_timestamp (None = NoneT)
    now,                  \* the last value time.time() returned to poll()
    polls,                \* number of poll() calls made so far
    impacts,              \* what _update_tracking returned in the last poll()
    events,               \* what the last poll() returned
    outcome,              \* how the last call ended: [op, status, value, point]
    loader,               \* where a thread inside load_calibration or
                          \* calibrate_from_detections stands: [pc, attempt, raised]
    debug_mode,           \* ObjectDetectionBackend.debug_mode
    game_targets,         \* ObjectDetectionBackend.game_targets
    debug_frame,          \* ObjectDetectionBackend.debug_frame (None = NoFrame)
    detector_config,      \* ColorBlobDetector.config
    impact_point,         \* arguments and result of the last direct
                          \* _get_impact_point call (NoCall before one)
    impact_duration,      \* ObjectDetectionBackend.impact_duration, in ticks
    direction_call        \* arguments and result of the last direct
                          \* _calculate_direction_change call: [v1, v2, angle]

vars == <<impact_mode, detector, has_manager, calibration, H_cam_to_proj,
          H_proj_to_cam, camera_center_x, tracked_objects, next_object_id,
          handled_objects, prev_detections, prev_timestamp, now, polls,
          impacts, events, outcome, loader, debug_mode, game_targets,
          debug_frame, detector_config, impact_point,
          direction_call, impact_duration>>

backendVars == <<tracked_objects, next_object_id, handled_objects,
                 prev_detections, prev_timestamp, now, polls, impacts, events>>

managerVars == <<calibration, H_cam_to_proj, H_proj_to_cam>>

configVars == <<impact_mode, detector, has_manager, camera_center_x,
                impact_duration, detector_config>>

threadVars == <<loader>>

debugVars == <<debug_mode, game_targets, debug_frame>>

tipVars == <<impact_point, direction_call>>

-----------------------------------------------------------------------------
(* Program constants                                                        *)

TicksPerSecond == 100

\* Python None for an Optional[float] / Optional[int] field
NoneT == -1

MatchGate == 100
\* _find_closest_previous accepts a previous detection closer than this (px)
PreviousGate == 200
HistoryWindow == 100
impact_velocity_threshold == 10
\* Default of the constructor's impact_duration (0.15 s)
DefaultImpactDuration == 15
velocity_change_threshold == 100
direction_change_threshold == 90
\* Angles are counted in units of 1e-7 degrees
AngleUnit == 10000000
\* Base of the limbs that hold a double's 53-bit significand
LimbBase == 32768
min_impact_velocity == 50
stuck_stationary_threshold == 5
stuck_confirm_frames == 3
handled_radius == 30
StuckFrameRate == 30

\* CalibrationConfig.min_markers_required
min_markers_required == 12

\* DetectedObject as the dataclass declares it: position, velocity, area,
\* bounding_box, confidence, timestamp.  The dataclass declares no contour
\* field, so no DetectedObject can be constructed with one and reading
\* det.contour raises AttributeError.
DetectedObjectFields == {"position", "velocity", "area", "bounding_box",
                         "confidence", "timestamp"}

\* A contour that is None
NoContour == <<>>

\* CalibrationManager._calibration is None / a cached matrix is None /
\* CalibrationData.screen_bounds is None
NoCalibration == [none |-> TRUE]
NoMatrix == [none |-> TRUE]
NoBounds == [none |-> TRUE]

\* camera.get_resolution() of the camera capability
CameraResolution == [width |-> 1000, height |-> 1000]

-----------------------------------------------------------------------------
(* Bounds of the model                                                      *)

\* poll() calls in a run of Spec, of SpecHeld and of SpecCadence
MaxPolls == 4
MaxHeldPolls == 8
MaxCadencePolls == 36
\* poll() calls in a run of SpecEdge
MaxEdgePolls == 2
\* poll() calls in a run of SpecConfigure
MaxConfigurePolls == 2
\* poll() calls in a run of SpecMatch
MaxMatchPolls == 2
\* poll() calls in a run of SpecBounce
MaxBouncePolls == 3
\* poll() calls in a run of SpecStationary
MaxStationaryPolls == 5
\* poll() calls in a run of SpecStuck
MaxStuckPolls == 5
\* Number of poll() calls in SpecUncalibrated
MaxUncalibratedPolls == 4

\* Number of poll() calls in SpecReset
MaxResetPolls == 5

\* Number of poll() calls in SpecLatency
MaxLatencyPolls == 4

\* Number of poll() calls in SpecDirection
MaxDirectionPolls == 2

\* Longest contour passed to _get_impact_point in SpecTip
MaxContourLen == 3
\* poll() calls in a run of SpecHistory
MaxHistoryPolls == 4
\* poll() calls in a run of SpecDebug
MaxDebugPolls == 2

-----------------------------------------------------------------------------
(* Arithmetic helpers                                                       *)

Pt(x, y) == [x |-> x, y |-> y]

Sq(a) == a * a

Abs(a) == IF a < 0 THEN -a ELSE a

\* dx*dx + dy*dy of the code's math.sqrt(dx * dx + dy * dy)
Dist2(p, q) == Sq(p.x - q.x) + Sq(p.y - q.y)

\* v.x ** 2 + v.y ** 2 of the code's speed computations
Speed2(v) == Sq(v.x) + Sq(v.y)

Fin(n, d) == [k |-> "fin", n |-> n, d |-> d]
PosInf == [k |-> "inf", n |-> 1, d |-> 0]
NegInf == [k |-> "inf", n |-> -1, d |-> 0]
NaN == [k |-> "nan", n |-> 0, d |-> 0]

\* math.isfinite
IsFinite(f) == f.k = "fin"

\* lo <= f <= hi for integers lo, hi; every comparison with NaN is false
FloatBetween(f, lo, hi) ==
    CASE f.k = "fin" -> (lo * f.d <= f.n) /\ (f.n <= hi * f.d)
      [] f.k = "inf" -> FALSE
      [] OTHER -> FALSE

\* f * c for an integer c
FMulInt(f, c) ==
    CASE f.k = "fin" -> Fin(f.n * c, f.d)
      [] f.k = "inf" -> IF c = 0 THEN NaN ELSE IF c > 0 THEN f ELSE [f EXCEPT !.n = -f.n]
      [] OTHER -> NaN

\* f + c for an integer c
FAddInt(f, c) ==
    CASE f.k = "fin" -> Fin(f.n + c * f.d, f.d)
      [] OTHER -> f

\* f / c for an integer c # 0 (numpy float division)
FDivInt(f, c) ==
    CASE f.k = "fin" -> IF c > 0 THEN Fin(f.n, f.d * c) ELSE Fin(-f.n, f.d * (-c))
      [] f.k = "inf" -> IF c > 0 THEN f ELSE [f EXCEPT !.n = -f.n]
      [] OTHER -> NaN

\* Equality of two floats as Python compares them (NaN equals nothing)
FEq(f, g) ==
    CASE f.k = "fin" /\ g.k = "fin" -> f.n * g.d = g.n * f.d
      [] f.k = "inf" /\ g.k = "inf" -> f.n = g.n
      [] OTHER -> FALSE

-----------------------------------------------------------------------------
(* Homographies.  The model works in the family of homographies            *)
(*     [[sx, 0, tx], [0, sy, ty], [0, 0, 1]]                               *)
(* with integer entries; sx may be Huge, a finite double far above the     *)
(* float32 range (HomographyMatrix validates the shape of the matrix only).*)
(* inv = TRUE is the matrix np.linalg.inv returned for it.                 *)

Huge == 2147483647

Homography(sx, sy, tx, ty) ==
    [sx |-> sx, sy |-> sy, tx |-> tx, ty |-> ty, inv |-> FALSE]

\* HomographyMatrix.to_numpy
to_numpy(h) == h

\* np.linalg.inv raises LinAlgError for a singular matrix
IsSingular(m) == m.sx = 0 \/ m.sy = 0

\* np.linalg.inv
Inverse(m) == [m EXCEPT !.inv = ~m.inv]

\* One coordinate of cv2.perspectiveTransform: scale * c + shift, stored as
\* float32 (a product with Huge overflows to +/-Infinity unless c is 0)
ScaleShift(c, scale, shift) ==
    IF scale = Huge
    THEN CASE c.k = "fin" -> IF c.n = 0 THEN Fin(shift, 1)
                             ELSE IF c.n > 0 THEN PosInf ELSE NegInf
           [] OTHER -> c
    ELSE FAddInt(FMulInt(c, scale), shift)

\* One coordinate of cv2.perspectiveTransform with the inverse matrix:
\* (c - shift) / scale (a quotient by Huge underflows to 0 in float32)
UnscaleShift(c, scale, shift) ==
    IF scale = Huge
    THEN CASE c.k = "fin" -> Fin(0, 1)
           [] OTHER -> c
    ELSE FDivInt(FAddInt(c, -shift), scale)

\* cv2.perspectiveTransform(point, m) for a point with float coordinates
perspectiveTransform(p, m) ==
    IF m.inv
    THEN [x |-> UnscaleShift(p.x, m.sx, m.tx), y |-> UnscaleShift(p.y, m.sy, m.ty)]
    ELSE [x |-> ScaleShift(p.x, m.sx, m.tx), y |-> ScaleShift(p.y, m.sy, m.ty)]

\* A Point2D with integer coordinates as a point with float coordinates
FPt(p) == [x |-> Fin(p.x, 1), y |-> Fin(p.y, 1)]

\* A finite float with an integral value as an integer pixel coordinate
Px(f) == IF f.k = "fin" THEN f.n \div f.d ELSE 0

-----------------------------------------------------------------------------
(* ScreenBounds (src/models/calibration.py)                                 *)

\* ScreenBounds.to_numpy_polygon: the four corners, clockwise from top-left
to_numpy_polygon(b) ==
    << Pt(Px(b.top_left.x), Px(b.top_left.y)),
       Pt(Px(b.top_right.x), Px(b.top_right.y)),
       Pt(Px(b.bottom_right.x), Px(b.bottom_right.y)),
       Pt(Px(b.bottom_left.x), Px(b.bottom_left.y)) >>

Cross(a, b, p) == (b.x - a.x) * (p.y - a.y) - (b.y - a.y) * (p.x - a.x)

Min(a, b) == IF a < b THEN a ELSE b
Max(a, b) == IF a > b THEN a ELSE b

OnSegment(p, a, b) ==
    /\ Cross(a, b, p) = 0
    /\ Min(a.x, b.x) <= p.x /\ p.x <= Max(a.x, b.x)
    /\ Min(a.y, b.y) <= p.y /\ p.y <= Max(a.y, b.y)

\* The edge a-b crosses the horizontal ray from p to the right
RayCrosses(p, a, b) ==
    /\ (a.y > p.y) # (b.y > p.y)
    /\ IF b.y > a.y
       THEN (p.x - a.x) * (b.y - a.y) < (p.y - a.y) * (b.x - a.x)
       ELSE (p.x - a.x) * (b.y - a.y) > (p.y - a.y) * (b.x - a.x)

\* cv2.pointPolygonTest(polygon, p, False) >= 0: inside or on an edge
pointPolygonTest(poly, p) ==
    LET n == Len(poly)
        nxt(i) == IF i = n THEN 1 ELSE i + 1
    IN \/ \E i \in 1..n : OnSegment(p, poly[i], poly[nxt(i)])
       \/ Cardinality({i \in 1..n : RayCrosses(p, poly[i], poly[nxt(i)])}) % 2 = 1

\* contains_point that accepts only points strictly inside the polygon
contains_point_strict(b, x, y) ==
    LET poly == to_numpy_polygon(b)
        n == Len(poly)
        nxt(i) == IF i = n THEN 1 ELSE i + 1
    IN /\ ~\E i \in 1..n : OnSegment(Pt(x, y), poly[i], poly[nxt(i)])
       /\ pointPolygonTest(poly, Pt(x, y))

\* ScreenBounds.contains_point
contains_point(b, x, y) == pointPolygonTest(to_numpy_polygon(b), Pt(x, y))

-----------------------------------------------------------------------------
(* CalibrationManager: a call returns [ok, value]; ok = FALSE is a raised   *)
(* exception and value then names it.                                       *)

Ok(v) == [ok |-> TRUE, value |-> v]
Raise(e) == [ok |-> FALSE, value |-> e]

\* CalibrationManager.is_calibrated
is_calibrated(cal) == cal # NoCalibration

\* camera_to_game that passes the point through when nothing is loaded
camera_to_game_unchecked(cal, Hcp, camera_point) ==
    IF ~is_calibrated(cal)
    THEN Ok(camera_point)
    ELSE IF Hcp = NoMatrix
    THEN Raise("cv2.error")
    ELSE LET proj_pt == perspectiveTransform(camera_point, Hcp)
         IN Ok([x |-> FDivInt(proj_pt.x, cal.projector_resolution.width),
                y |-> FDivInt(proj_pt.y, cal.projector_resolution.height)])

\* CalibrationManager.camera_to_game
camera_to_game(cal, Hcp, camera_point) ==
    IF ~is_calibrated(cal)
    THEN Raise("RuntimeError")
    ELSE IF Hcp = NoMatrix
    THEN Raise("cv2.error")
    ELSE LET proj_pt == perspectiveTransform(camera_point, Hcp)
         IN Ok([x |-> FDivInt(proj_pt.x, cal.projector_resolution.width),
                y |-> FDivInt(proj_pt.y, cal.projector_resolution.height)])

\* CalibrationManager.game_to_projector
game_to_projector(cal, game_point) ==
    IF ~is_calibrated(cal)
    THEN Raise("RuntimeError")
    ELSE Ok([x |-> FMulInt(game_point.x, cal.projector_resolution.width),
             y |-> FMulInt(game_point.y, cal.projector_resolution.height)])

\* CalibrationManager.projector_to_camera
projector_to_camera(cal, Hpc, projector_point) ==
    IF ~is_calibrated(cal)
    THEN Raise("RuntimeError")
    ELSE IF Hpc = NoMatrix
    THEN Raise("cv2.error")
    ELSE Ok(perspectiveTransform(projector_point, Hpc))

\* CalibrationManager.is_within_screen_bounds
manager_is_within_screen_bounds(cal, camera_point) ==
    IF ~is_calibrated(cal)
    THEN TRUE
    ELSE IF cal.screen_bounds = NoBounds
    THEN TRUE
    ELSE contains_point(cal.screen_bounds, camera_point.x, camera_point.y)

\* CalibrationManager.get_camera_geometry: camera_center_x, or NoneT
get_camera_geometry(cal) ==
    IF ~is_calibrated(cal) THEN NoneT ELSE cal.camera_resolution.width \div 2

\* CalibrationManager._compute_screen_bounds: Ok(bounds), or the exception
\* projector_to_camera raised
compute_screen_bounds(cal, Hpc, projector_resolution) ==
    LET w == projector_resolution.width
        h == projector_resolution.height
        corners_proj == << Pt(0, 0), Pt(w, 0), Pt(w, h), Pt(0, h) >>
        r(i) == projector_to_camera(cal, Hpc, FPt(corners_proj[i]))
    IN IF \E i \in 1..4 : ~r(i).ok
       THEN Raise(r(CHOOSE i \in 1..4 : ~r(i).ok /\ \A j \in 1..(i-1) : r(j).ok).value)
       ELSE Ok([top_left |-> r(1).value, top_right |-> r(2).value,
                bottom_right |-> r(3).value, bottom_left |-> r(4).value])

-----------------------------------------------------------------------------
(* ObjectDetectionBackend: tracking and impact detection                    *)

\* A DetectedObject as the backend reads it
Detection(pos, vel) == [position |-> pos, velocity |-> vel]

\* NewTrack that starts with an empty velocity history
NewTrack_empty_history(id, det, timestamp) ==
    [track_id |-> id,
     object_id |-> id,
     last_detection |-> det,
     stationary_since |-> NoneT,
     stationary_frames |-> 0,
     velocity_history |-> << >>]

\* TrackedObject(object_id, last_detection, velocity_history=[(timestamp, velocity)])
\* as stored under current_tracks[self.next_object_id]: track_id is the key
\* the track map holds the object under
NewTrack(id, det, timestamp) ==
    [track_id |-> id,
     object_id |-> id,
     last_detection |-> det,
     stationary_since |-> NoneT,
     stationary_frames |-> 0,
     velocity_history |-> << <<timestamp, det.velocity>> >>]

\* ScanDetections with a gate that admits a detection exactly 100 pixels away
RECURSIVE ScanDetections_inclusive_gate(_, _, _, _, _, _)
ScanDetections_inclusive_gate(tracked, dets, matched, i, best, minD2) ==
    IF i > Len(dets)
    THEN best
    ELSE IF i \in matched
    THEN ScanDetections_inclusive_gate(tracked, dets, matched, i + 1, best, minD2)
    ELSE LET d2 == Dist2(dets[i].position, tracked.last_detection.position)
         IN IF (minD2 < 0 \/ d2 < minD2) /\ d2 <= Sq(MatchGate)
            THEN ScanDetections_inclusive_gate(tracked, dets, matched, i + 1, i, d2)
            ELSE ScanDetections_inclusive_gate(tracked, dets, matched, i + 1, best, minD2)

\* The inner loop of _update_tracking: scan detections i..Len(dets) in index
\* order, skipping the claimed ones, keeping the first strictly closest one
\* within the gate.  best = 0 is closest_det = None; minD2 < 0 is min_dist = inf.
RECURSIVE ScanDetections(_, _, _, _, _, _)
ScanDetections(tracked, dets, matched, i, best, minD2) ==
    IF i > Len(dets)
    THEN best
    ELSE IF i \in matched
    THEN ScanDetections(tracked, dets, matched, i + 1, best, minD2)
    ELSE LET d2 == Dist2(dets[i].position, tracked.last_detection.position)
         IN IF (minD2 < 0 \/ d2 < minD2) /\ d2 < Sq(MatchGate)
            THEN ScanDetections(tracked, dets, matched, i + 1, i, d2)
            ELSE ScanDetections(tracked, dets, matched, i + 1, best, minD2)

ClosestDetection(tracked, dets, matched) ==
    ScanDetections(tracked, dets, matched, 1, 0, -1)

\* A natural number as its little-endian sequence of limbs, without leading zeros
RECURSIVE BigOfInt(_)
BigOfInt(n) == IF n = 0 THEN << >> ELSE <<n % LimbBase>> \o BigOfInt(n \div LimbBase)

RECURSIVE BigTrim(_)
BigTrim(a) ==
    IF a = << >> THEN a
    ELSE IF a[Len(a)] = 0 THEN BigTrim(SubSeq(a, 1, Len(a) - 1)) ELSE a

Limb(a, i) == IF i <= Len(a) THEN a[i] ELSE 0

\* -1, 0, 1 as a < b, a = b, a > b
RECURSIVE BigCmpFrom(_, _, _)
BigCmpFrom(a, b, i) ==
    IF i = 0 THEN 0
    ELSE IF Limb(a, i) < Limb(b, i) THEN -1
    ELSE IF Limb(a, i) > Limb(b, i) THEN 1
    ELSE BigCmpFrom(a, b, i - 1)

BigCmp(a, b) ==
    IF Len(a) < Len(b) THEN -1
    ELSE IF Len(a) > Len(b) THEN 1
    ELSE BigCmpFrom(a, b, Len(a))

RECURSIVE BigAddFrom(_, _, _, _)
BigAddFrom(a, b, i, carry) ==
    IF i > Len(a) /\ i > Len(b)
    THEN IF carry = 0 THEN << >> ELSE <<carry>>
    ELSE LET s == Limb(a, i) + Limb(b, i) + carry
         IN <<s % LimbBase>> \o BigAddFrom(a, b, i + 1, s \div LimbBase)

BigAdd(a, b) == BigAddFrom(a, b, 1, 0)

\* a - b for a >= b
RECURSIVE BigSubFrom(_, _, _, _)
BigSubFrom(a, b, i, borrow) ==
    IF i > Len(a)
    THEN << >>
    ELSE LET d == Limb(a, i) - Limb(b, i) - borrow
         IN IF d < 0
            THEN <<d + LimbBase>> \o BigSubFrom(a, b, i + 1, 1)
            ELSE <<d>> \o BigSubFrom(a, b, i + 1, 0)

BigSub(a, b) == BigTrim(BigSubFrom(a, b, 1, 0))

\* a * k for a limb k
RECURSIVE BigMulLimbFrom(_, _, _, _)
BigMulLimbFrom(a, k, i, carry) ==
    IF i > Len(a)
    THEN IF carry = 0 THEN << >> ELSE <<carry>>
    ELSE LET p == a[i] * k + carry
         IN <<p % LimbBase>> \o BigMulLimbFrom(a, k, i + 1, p \div LimbBase)

BigMulLimb(a, k) == IF k = 0 THEN << >> ELSE BigMulLimbFrom(a, k, 1, 0)

RECURSIVE BigMulFrom(_, _, _)
BigMulFrom(a, b, j) ==
    IF j > Len(b)
    THEN << >>
    ELSE LET rest == BigMulFrom(a, b, j + 1)
             shifted == IF rest = << >> THEN << >> ELSE <<0>> \o rest
         IN BigAdd(BigMulLimb(a, b[j]), shifted)

BigMul(a, b) == IF a = << >> \/ b = << >> THEN << >> ELSE BigMulFrom(a, b, 1)

RECURSIVE Pow2(_)
Pow2(k) == IF k = 0 THEN 1 ELSE 2 * Pow2(k - 1)

\* 2^k
BigPow2(k) == [i \in 1..(k \div 15 + 1) |-> IF i = k \div 15 + 1 THEN Pow2(k % 15) ELSE 0]

RECURSIVE IntBitLen(_)
IntBitLen(n) == IF n = 0 THEN 0 ELSE 1 + IntBitLen(n \div 2)

BigBitLen(a) == IF a = << >> THEN 0 ELSE 15 * (Len(a) - 1) + IntBitLen(a[Len(a)])

\* floor(a / 2)
RECURSIVE BigHalfFrom(_, _)
BigHalfFrom(a, i) ==
    IF i > Len(a) THEN << >>
    ELSE <<a[i] \div 2 + (Limb(a, i + 1) % 2) * (LimbBase \div 2)>> \o BigHalfFrom(a, i + 1)

BigHalf(a) == BigTrim(BigHalfFrom(a, 1))

BigIsOdd(a) == a # << >> /\ a[1] % 2 = 1

\* One step of binary long division: the state holds the remainder r, the
\* divisor shifted to the current bit t, and the quotient q so far
BigDivStep(s) ==
    LET take == BigCmp(s.r, s.t) >= 0
    IN [r |-> IF take THEN BigSub(s.r, s.t) ELSE s.r,
        t |-> BigHalf(s.t),
        q |-> IF take THEN BigAdd(BigMulLimb(s.q, 2), <<1>>) ELSE BigMulLimb(s.q, 2)]

RECURSIVE BigDivSteps(_, _)
BigDivSteps(s, n) ==
    IF n = 0 THEN s
    ELSE CHOOSE res \in {BigDivSteps(v, n - 1) : v \in {BigDivStep(s)}} : TRUE

RECURSIVE BigDivBlocks(_, _)
BigDivBlocks(s, blocks) ==
    IF blocks = 0 THEN s
    ELSE CHOOSE res \in {BigDivBlocks(v, blocks - 1) : v \in {BigDivSteps(s, 9)}} : TRUE

\* floor(n / d) and the remainder, for n < d * 2^54
BigDivMod(n, d) ==
    BigDivBlocks([r |-> n, t |-> BigMul(d, BigPow2(53)), q |-> << >>], 6)

\* A positive double: significand m with 2^52 <= m < 2^53, value m * 2^e
Double(m, e) == [m |-> m, e |-> e]

\* The double nearest to num / den (ties to even), num and den positive
FloatDiv(num, den) ==
    LET e0 == BigBitLen(num) - BigBitLen(den) - 53
        n0 == IF e0 < 0 THEN BigMul(num, BigPow2(-e0)) ELSE num
        d0 == IF e0 > 0 THEN BigMul(den, BigPow2(e0)) ELSE den
        \* n0 / d0 lies in (2^52, 2^54)
        big == BigCmp(n0, BigMul(d0, BigPow2(53))) >= 0
        d1 == IF big THEN BigMulLimb(d0, 2) ELSE d0
        e1 == IF big THEN e0 + 1 ELSE e0
        Rounded(qr) ==
            LET twice == BigMulLimb(qr.r, 2)
                up == \/ BigCmp(twice, d1) > 0
                      \/ BigCmp(twice, d1) = 0 /\ BigIsOdd(qr.q)
            IN IF up THEN BigAdd(qr.q, <<1>>) ELSE qr.q
        Normal(m) == IF BigCmp(m, BigPow2(53)) = 0
                     THEN Double(BigPow2(52), e1 + 1)
                     ELSE Double(m, e1)
    IN CHOOSE d \in {Normal(m) : m \in {Rounded(qr) : qr \in {BigDivMod(n0, d1)}}} : TRUE

RECURSIVE Pow4(_)
Pow4(k) == IF k = 0 THEN 1 ELSE 4 * Pow4(k - 1)

\* One step of the digit-by-digit binary square root of n * 4^(54 - pairs):
\* bring down the next pair of bits, try the next root bit
BigSqrtStep(n, pairs, s) ==
    LET pair == IF s.k <= pairs THEN (n \div Pow4(pairs - s.k)) % 4 ELSE 0
        Try(rem, trial) ==
            IF BigCmp(rem, trial) >= 0
            THEN [rem |-> BigSub(rem, trial),
                  root |-> BigAdd(BigMulLimb(s.root, 2), <<1>>), k |-> s.k + 1]
            ELSE [rem |-> rem, root |-> BigMulLimb(s.root, 2), k |-> s.k + 1]
    IN CHOOSE next \in {Try(rem, trial) :
                           rem \in {BigAdd(BigMulLimb(s.rem, 4), BigOfInt(pair))},
                           trial \in {BigAdd(BigMulLimb(s.root, 4), <<1>>)}} : TRUE

RECURSIVE BigSqrtSteps(_, _, _, _)
BigSqrtSteps(n, pairs, s, count) ==
    IF count = 0 THEN s
    ELSE CHOOSE res \in {BigSqrtSteps(n, pairs, v, count - 1) :
                           v \in {BigSqrtStep(n, pairs, s)}} : TRUE

RECURSIVE BigSqrtBlocks(_, _, _, _)
BigSqrtBlocks(n, pairs, s, blocks) ==
    IF blocks = 0 THEN s
    ELSE CHOOSE res \in {BigSqrtBlocks(n, pairs, v, blocks - 1) :
                           v \in {BigSqrtSteps(n, pairs, s, 9)}} : TRUE

\* math.sqrt(n) for an integer n >= 1: the double nearest to the square root.
\* The 54-bit root r = floor(2 * sqrt(n * 4^t)) rounds to nearest as
\* r \div 2 + r % 2 (a square root of an integer is never a tie).
FloatSqrt(n) ==
    LET pairs == (IntBitLen(n) + 1) \div 2
        t == 53 - pairs
        Rounded(r) == IF BigIsOdd(r) THEN BigAdd(BigHalf(r), <<1>>) ELSE BigHalf(r)
        Normal(m) == IF BigCmp(m, BigPow2(53)) = 0
                     THEN Double(BigPow2(52), -t + 1)
                     ELSE Double(m, -t)
    IN CHOOSE d \in
          {Normal(m) :
             m \in {Rounded(r) :
                      r \in {BigSqrtBlocks(n, pairs,
                                           [rem |-> << >>, root |-> << >>, k |-> 1],
                                           6).root}}} : TRUE

\* floor(a / 2^bits)
RECURSIVE BigShrBits(_, _, _)
BigShrBits(a, b, i) ==
    IF i > Len(a) THEN << >>
    ELSE <<a[i] \div Pow2(b) + (Limb(a, i + 1) % Pow2(b)) * Pow2(15 - b)>>
         \o BigShrBits(a, b, i + 1)

BigShr(a, bits) ==
    IF bits \div 15 >= Len(a) THEN << >>
    ELSE BigTrim(BigShrBits(SubSeq(a, bits \div 15 + 1, Len(a)), bits % 15, 1))

\* The double nearest to the natural number p >= 1 (ties to even)
FloatOfBig(p) ==
    LET len == BigBitLen(p)
        s == len - 53
        Rounded(q) ==
            LET rem == BigSub(p, BigMul(q, BigPow2(s)))
                half == BigPow2(s - 1)
                up == \/ BigCmp(rem, half) > 0
                      \/ BigCmp(rem, half) = 0 /\ BigIsOdd(q)
            IN IF up THEN BigAdd(q, <<1>>) ELSE q
        Normal(m) == IF BigCmp(m, BigPow2(53)) = 0
                     THEN Double(BigPow2(52), s + 1)
                     ELSE Double(m, s)
    IN IF s <= 0
       THEN Double(BigMul(p, BigPow2(-s)), s)
       ELSE CHOOSE d \in {Normal(m) : m \in {Rounded(q) : q \in {BigShr(p, s)}}} : TRUE

\* a * b rounded to a double
FloatMul(a, b) ==
    CHOOSE d \in {Double(p.m, p.e + a.e + b.e) :
                    p \in {FloatOfBig(BigMul(a.m, b.m))}} : TRUE

\* the integer n >= 1 divided by the double b, rounded to a double
IntDivFloat(n, b) ==
    CHOOSE d \in {Double(q.m, q.e - b.e) : q \in {FloatDiv(BigOfInt(n), b.m)}} : TRUE

\* cos_angle before the clamp, without its sign: |dot| / (mag1 * mag2) with
\* every operation rounded to a double as math.sqrt, * and / round it
abs_cos_angle(v1, v2) ==
    LET dot == v1.x * v2.x + v1.y * v2.y
    IN CHOOSE c \in {IntDivFloat(Abs(dot), prod) :
                        prod \in {FloatMul(mag1, mag2) :
                                    mag1 \in {FloatSqrt(Speed2(v1))},
                                    mag2 \in {FloatSqrt(Speed2(v2))}}} : TRUE

\* math.degrees(math.acos(1 - k * 2^-53)) for k = 1..8, to the nearest 1e-7 degree
AcosNearOne == <<9, 12, 15, 17, 19, 21, 23, 24>>

\* Significand of the double nearest to cos(45 degrees), 0x1.6a09e667f3bcdp-1
SignificandCos45 == <<15309, 19710, 633, 181>>

\* math.degrees(math.acos(max(-1.0, min(1.0, c)))) to the nearest 1e-7 degree,
\* for |c| >= 1, for |c| within 8 * 2^-53 below 1 and for |c| within
\* 8 * 2^-53 of cos(45 degrees); c is given by its sign and its absolute value
acos_degrees(negative, c) ==
    LET near == CASE c.e >= -52 -> 0
                  [] /\ c.e = -53
                     /\ BigCmp(BigAdd(c.m, <<8>>), BigPow2(53)) >= 0 ->
                        AcosNearOne[BigSub(BigPow2(53), c.m)[1]]
                  [] /\ c.e = -53
                     /\ BigCmp(BigAdd(c.m, <<8>>), SignificandCos45) >= 0
                     /\ BigCmp(c.m, BigAdd(SignificandCos45, <<8>>)) <= 0 ->
                        45 * AngleUnit
    IN IF negative THEN 180 * AngleUnit - near ELSE near

\* _calculate_direction_change without the return of 0.0 for a magnitude
\* below 1
direction_change_degrees_no_rest_guard(v1, v2) ==
    LET dot == v1.x * v2.x + v1.y * v2.y
    IN IF dot = 0
       THEN 90 * AngleUnit
       ELSE CHOOSE angle \in {acos_degrees(dot < 0, c) :
                                 c \in {abs_cos_angle(v1, v2)}} : TRUE

\* _calculate_direction_change, in units of 1e-7 degrees (the double result
\* rounded to the nearest unit), for velocities with integer components
direction_change_degrees(v1, v2) ==
    LET dot == v1.x * v2.x + v1.y * v2.y
    IN IF Speed2(v1) < 1 \/ Speed2(v2) < 1
       THEN 0
       ELSE IF dot = 0
       THEN 90 * AngleUnit
       ELSE CHOOSE angle \in {acos_degrees(dot < 0, c) :
                                 c \in {abs_cos_angle(v1, v2)}} : TRUE

\* The exact angle between the vectors is a multiple of 45 degrees
MultipleOf45(v1, v2) ==
    LET dot == v1.x * v2.x + v1.y * v2.y
        crs == v1.x * v2.y - v1.y * v2.x
    IN dot = 0 \/ crs = 0 \/ Abs(dot) = Abs(crs)

\* Vectors _calculate_direction_change is called with: at rest, along one
\* line in both directions and at several lengths, perpendicular to it,
\* along the axes and along the diagonals
DirectionVectors ==
    {Pt(0, 0), Pt(1, 2), Pt(2, 4), Pt(3, 6), Pt(-1, -2), Pt(-3, -6), Pt(-2, 1),
     Pt(2, -1), Pt(3, 0), Pt(-7, 0), Pt(0, 5), Pt(1, 1), Pt(-2, -2), Pt(1, -1)}

\* _calculate_direction_change evaluated once for each pair of these vectors
\* whose exact angle is a multiple of 45 degrees
DirectionChangeTable ==
    {[v1 |-> v1, v2 |-> v2, angle |-> direction_change_degrees(v1, v2)] :
        <<v1, v2>> \in {p \in DirectionVectors \X DirectionVectors :
                          MultipleOf45(p[1], p[2])}}

\* The vector lies along the x axis or the y axis
AxisAligned(v) == v.x = 0 \/ v.y = 0

\* _calculate_direction_change as the tracking cycle calls it, in units of
\* 1e-7 degrees.  The velocities of polled frames lie along an axis: their
\* magnitudes, the product and the quotient are then exact in doubles, and
\* the result is exactly 0, 90 or 180 degrees (DirectionChangeTable holds the
\* same values, computed with the rounding of doubles).
calculate_direction_change(v1, v2) ==
    LET dot == v1.x * v2.x + v1.y * v2.y
    IN IF Speed2(v1) < 1 \/ Speed2(v2) < 1
       THEN 0
       ELSE CASE AxisAligned(v1) /\ AxisAligned(v2) /\ dot = 0 -> 90 * AngleUnit
              [] AxisAligned(v1) /\ AxisAligned(v2) /\ dot > 0 -> 0
              [] AxisAligned(v1) /\ AxisAligned(v2) /\ dot < 0 -> 180 * AngleUnit

\* _is_handled
is_handled(handled, position) ==
    \E i \in 1..Len(handled) : Dist2(position, handled[i].position) < Sq(handled_radius)

\* _add_handled
add_handled(handled, position, object_id, timestamp) ==
    Append(handled, [position |-> position, registered_at |-> timestamp,
                     object_id |-> object_id])

\* First index of the largest / smallest x of a contour (np.argmax, np.argmin)
ArgMaxX(points) ==
    CHOOSE i \in 1..Len(points) :
        /\ \A j \in 1..Len(points) : points[j].x <= points[i].x
        /\ \A j \in 1..(i - 1) : points[j].x < points[i].x

ArgMinX(points) ==
    CHOOSE i \in 1..Len(points) :
        /\ \A j \in 1..Len(points) : points[j].x >= points[i].x
        /\ \A j \in 1..(i - 1) : points[j].x > points[i].x

\* _get_impact_point taking the largest x also for a detection at the center
get_impact_point_center_inclusive(center_x, contour, detection_pos) ==
    IF contour = NoContour \/ center_x = NoneT
    THEN detection_pos
    ELSE IF Len(contour) < 3
    THEN detection_pos
    ELSE IF detection_pos.x <= center_x
    THEN contour[ArgMaxX(contour)]
    ELSE contour[ArgMinX(contour)]

\* _get_impact_point
get_impact_point(center_x, contour, detection_pos) ==
    IF contour = NoContour \/ center_x = NoneT
    THEN detection_pos
    ELSE IF Len(contour) < 3
    THEN detection_pos
    ELSE IF detection_pos.x < center_x
    THEN contour[ArgMaxX(contour)]
    ELSE contour[ArgMinX(contour)]

\* Reading det.contour: the attribute exists only if the dataclass declares it
HasContourAttribute == "contour" \in DetectedObjectFields

ContourOf(det) == IF "contour" \in DOMAIN det THEN det.contour ELSE NoContour

\* ImpactEvent; track is the id of the track that emitted it (a history
\* annotation of the model, not a field of the code's ImpactEvent)
ImpactEvent(position, velocity_before, timestamp, stationary_duration, id) ==
    [position |-> position, velocity_before |-> velocity_before,
     timestamp |-> timestamp, stationary_duration |-> stationary_duration,
     track |-> id]

\* What one impact policy does to a matched track: the track as mutated in
\* place, the impacts emitted, whether the track is retired (continue), the
\* handled list, and whether an exception was raised.
PolicyResult(tracked, emitted, retire, handled, raised) ==
    [tracked |-> tracked, emitted |-> emitted, retire |-> retire,
     handled |-> handled, raised |-> raised]

\* TrajectoryChangePolicy placing the impact at the current detection
TrajectoryChangePolicy_at_detection(tracked, det, timestamp, handled) ==
    LET prev_velocity == tracked.last_detection.velocity
        velocity_change_mag2 == Sq(det.velocity.x - prev_velocity.x)
                                + Sq(det.velocity.y - prev_velocity.y)
        direction_change == calculate_direction_change(prev_velocity, det.velocity)
    IN IF /\ Speed2(prev_velocity) >= Sq(min_impact_velocity)
          /\ \/ velocity_change_mag2 >= Sq(velocity_change_threshold)
             \/ direction_change >= direction_change_threshold * AngleUnit
       THEN PolicyResult(tracked,
                         << ImpactEvent(det.position, prev_velocity,
                                        timestamp, 0, tracked.object_id) >>,
                         FALSE, handled, FALSE)
       ELSE PolicyResult(tracked, << >>, FALSE, handled, FALSE)

\* TrajectoryChangePolicy without the requirement on the previous speed
TrajectoryChangePolicy_any_speed(tracked, det, timestamp, handled) ==
    LET prev_velocity == tracked.last_detection.velocity
        velocity_change_mag2 == Sq(det.velocity.x - prev_velocity.x)
                                + Sq(det.velocity.y - prev_velocity.y)
        direction_change == calculate_direction_change(prev_velocity, det.velocity)
    IN IF \/ velocity_change_mag2 >= Sq(velocity_change_threshold)
          \/ direction_change >= direction_change_threshold * AngleUnit
       THEN PolicyResult(tracked,
                         << ImpactEvent(tracked.last_detection.position, prev_velocity,
                                        timestamp, 0, tracked.object_id) >>,
                         FALSE, handled, FALSE)
       ELSE PolicyResult(tracked, << >>, FALSE, handled, FALSE)

\* ImpactMode.TRAJECTORY_CHANGE branch of _update_tracking
TrajectoryChangePolicy(tracked, det, timestamp, handled) ==
    LET prev_velocity == tracked.last_detection.velocity
        velocity_change_mag2 == Sq(det.velocity.x - prev_velocity.x)
                                + Sq(det.velocity.y - prev_velocity.y)
        direction_change == calculate_direction_change(prev_velocity, det.velocity)
    IN IF /\ Speed2(prev_velocity) >= Sq(min_impact_velocity)
          /\ \/ velocity_change_mag2 >= Sq(velocity_change_threshold)
             \/ direction_change >= direction_change_threshold * AngleUnit
       THEN PolicyResult(tracked,
                         << ImpactEvent(tracked.last_detection.position, prev_velocity,
                                        timestamp, 0, tracked.object_id) >>,
                         FALSE, handled, FALSE)
       ELSE PolicyResult(tracked, << >>, FALSE, handled, FALSE)

\* StationaryPolicy that keeps the timer running through a moving frame
StationaryPolicy_keeps_timer(tracked, det, timestamp, handled) ==
    IF Speed2(det.velocity) < Sq(impact_velocity_threshold)
    THEN IF tracked.stationary_since = NoneT
         THEN PolicyResult([tracked EXCEPT !.stationary_since = timestamp],
                           << >>, FALSE, handled, FALSE)
         ELSE LET stationary_duration == timestamp - tracked.stationary_since
              IN IF stationary_duration >= impact_duration
                 THEN PolicyResult(tracked,
                                   << ImpactEvent(det.position,
                                                  tracked.last_detection.velocity,
                                                  timestamp, stationary_duration,
                                                  tracked.object_id) >>,
                                   TRUE, handled, FALSE)
                 ELSE PolicyResult(tracked, << >>, FALSE, handled, FALSE)
    ELSE PolicyResult(tracked, << >>, FALSE, handled, FALSE)

\* ImpactMode.STATIONARY branch of _update_tracking
\* The STATIONARY branch testing the duration already in the cycle that
\* starts the timer
StationaryPolicy_fires_when_timer_starts(tracked, det, timestamp, handled) ==
    IF Speed2(det.velocity) < Sq(impact_velocity_threshold)
    THEN LET since == IF tracked.stationary_since = NoneT
                      THEN timestamp ELSE tracked.stationary_since
             stationary_duration == timestamp - since
         IN IF stationary_duration >= impact_duration
            THEN PolicyResult(tracked,
                              << ImpactEvent(det.position,
                                             tracked.last_detection.velocity,
                                             timestamp, stationary_duration,
                                             tracked.object_id) >>,
                              TRUE, handled, FALSE)
            ELSE PolicyResult([tracked EXCEPT !.stationary_since = since],
                              << >>, FALSE, handled, FALSE)
    ELSE PolicyResult([tracked EXCEPT !.stationary_since = NoneT],
                      << >>, FALSE, handled, FALSE)

StationaryPolicy(tracked, det, timestamp, handled) ==
    IF Speed2(det.velocity) < Sq(impact_velocity_threshold)
    THEN IF tracked.stationary_since = NoneT
         THEN PolicyResult([tracked EXCEPT !.stationary_since = timestamp],
                           << >>, FALSE, handled, FALSE)
         ELSE LET stationary_duration == timestamp - tracked.stationary_since
              IN IF stationary_duration >= impact_duration
                 THEN PolicyResult(tracked,
                                   << ImpactEvent(det.position,
                                                  tracked.last_detection.velocity,
                                                  timestamp, stationary_duration,
                                                  tracked.object_id) >>,
                                   TRUE, handled, FALSE)
                 ELSE PolicyResult(tracked, << >>, FALSE, handled, FALSE)
    ELSE PolicyResult([tracked EXCEPT !.stationary_since = NoneT],
                      << >>, FALSE, handled, FALSE)

\* StuckPolicy that keeps the frame counter through a moving frame
StuckPolicy_keeps_counter(tracked, det, timestamp, handled, center_x) ==
    IF Speed2(det.velocity) < Sq(stuck_stationary_threshold)
    THEN LET counted == [tracked EXCEPT !.stationary_frames = @ + 1]
         IN IF counted.stationary_frames >= stuck_confirm_frames
            THEN IF ~HasContourAttribute
                 THEN PolicyResult(counted, << >>, FALSE, handled, TRUE)
                 ELSE LET impact_pos == get_impact_point(center_x, ContourOf(det),
                                                         det.position)
                      IN IF ~is_handled(handled, impact_pos)
                         THEN PolicyResult(
                                counted,
                                << ImpactEvent(impact_pos,
                                               tracked.last_detection.velocity,
                                               timestamp,
                                               (counted.stationary_frames * TicksPerSecond)
                                                   \div StuckFrameRate,
                                               tracked.object_id) >>,
                                FALSE,
                                add_handled(handled, impact_pos, tracked.object_id,
                                            timestamp),
                                FALSE)
                         ELSE PolicyResult(counted, << >>, FALSE, handled, FALSE)
            ELSE PolicyResult(counted, << >>, FALSE, handled, FALSE)
    ELSE PolicyResult(tracked, << >>, FALSE, handled, FALSE)

\* ImpactMode.STUCK branch of _update_tracking
StuckPolicy(tracked, det, timestamp, handled, center_x) ==
    IF Speed2(det.velocity) < Sq(stuck_stationary_threshold)
    THEN LET counted == [tracked EXCEPT !.stationary_frames = @ + 1]
         IN IF counted.stationary_frames >= stuck_confirm_frames
            THEN IF ~HasContourAttribute
                 THEN PolicyResult(counted, << >>, FALSE, handled, TRUE)
                 ELSE LET impact_pos == get_impact_point(center_x, ContourOf(det),
                                                         det.position)
                      IN IF ~is_handled(handled, impact_pos)
                         THEN PolicyResult(
                                counted,
                                << ImpactEvent(impact_pos,
                                               tracked.last_detection.velocity,
                                               timestamp,
                                               (counted.stationary_frames * TicksPerSecond)
                                                   \div StuckFrameRate,
                                               tracked.object_id) >>,
                                FALSE,
                                add_handled(handled, impact_pos, tracked.object_id,
                                            timestamp),
                                FALSE)
                         ELSE PolicyResult(counted, << >>, FALSE, handled, FALSE)
            ELSE PolicyResult(counted, << >>, FALSE, handled, FALSE)
    ELSE PolicyResult([tracked EXCEPT !.stationary_frames = 0],
                      << >>, FALSE, handled, FALSE)

\* Policy dispatch that runs the STATIONARY branch in STUCK mode as well
ApplyPolicy_stuck_runs_stationary(mode, tracked, det, timestamp, handled, center_x) ==
    CASE mode = "TRAJECTORY_CHANGE" -> TrajectoryChangePolicy(tracked, det, timestamp, handled)
      [] mode = "STATIONARY" -> StationaryPolicy(tracked, det, timestamp, handled)
      [] mode = "STUCK" -> StationaryPolicy(tracked, det, timestamp, handled)

ApplyPolicy(mode, tracked, det, timestamp, handled, center_x) ==
    CASE mode = "TRAJECTORY_CHANGE" -> TrajectoryChangePolicy(tracked, det, timestamp, handled)
      [] mode = "STATIONARY" -> StationaryPolicy(tracked, det, timestamp, handled)
      [] mode = "STUCK" -> StuckPolicy(tracked, det, timestamp, handled, center_x)

\* Pruning that keeps an entry exactly one second old
PruneHistory_keeps_one_second(history, timestamp) ==
    SelectSeq(history, LAMBDA e : timestamp - e[1] <= HistoryWindow)

\* velocity_history of a matched track: append, then keep the last second
PruneHistory(history, timestamp) ==
    SelectSeq(history, LAMBDA e : timestamp - e[1] < HistoryWindow)

\* "Update tracked object" of _update_tracking
UpdateTracked(tracked, det, timestamp) ==
    [tracked EXCEPT !.last_detection = det,
                    !.velocity_history =
                        PruneHistory(Append(@, <<timestamp, det.velocity>>), timestamp)]

\* TrackLoop that keeps a track alive through a cycle without a match
RECURSIVE TrackLoop_keeps_unmatched(_, _, _, _, _, _)
TrackLoop_keeps_unmatched(mode, center_x, dets, timestamp, i, st) ==
    IF i > Len(st.objects) \/ st.raised
    THEN st
    ELSE LET tracked == st.objects[i]
             c == ClosestDetection(tracked, dets, st.matched)
         IN IF c = 0
            THEN TrackLoop_keeps_unmatched(mode, center_x, dets, timestamp, i + 1,
                      [st EXCEPT !.current = Append(@, tracked)])
            ELSE LET det == dets[c]
                     r == ApplyPolicy(mode, tracked, det, timestamp, st.handled, center_x)
                     updated == UpdateTracked(r.tracked, det, timestamp)
                     after == IF r.raised \/ r.retire THEN r.tracked ELSE updated
                 IN TrackLoop_keeps_unmatched(mode, center_x, dets, timestamp, i + 1,
                      [objects |-> [st.objects EXCEPT ![i] = after],
                       current |-> IF r.raised \/ r.retire
                                   THEN st.current
                                   ELSE Append(st.current, updated),
                       matched |-> st.matched \cup {c},
                       impacts |-> st.impacts \o r.emitted,
                       handled |-> r.handled,
                       raised |-> r.raised])

\* The loop over self.tracked_objects.items().  st.objects are the track
\* objects of the map in dict order, mutated in place as the loop goes;
\* st.current is current_tracks; st.raised stops the loop (the exception
\* leaves _update_tracking before the map is replaced).
RECURSIVE TrackLoop(_, _, _, _, _, _)
TrackLoop(mode, center_x, dets, timestamp, i, st) ==
    IF i > Len(st.objects) \/ st.raised
    THEN st
    ELSE LET tracked == st.objects[i]
             c == ClosestDetection(tracked, dets, st.matched)
         IN IF c = 0
            THEN TrackLoop(mode, center_x, dets, timestamp, i + 1, st)
            ELSE LET det == dets[c]
                     r == ApplyPolicy(mode, tracked, det, timestamp, st.handled, center_x)
                     updated == UpdateTracked(r.tracked, det, timestamp)
                     after == IF r.raised \/ r.retire THEN r.tracked ELSE updated
                 IN TrackLoop(mode, center_x, dets, timestamp, i + 1,
                      [objects |-> [st.objects EXCEPT ![i] = after],
                       current |-> IF r.raised \/ r.retire
                                   THEN st.current
                                   ELSE Append(st.current, updated),
                       matched |-> st.matched \cup {c},
                       impacts |-> st.impacts \o r.emitted,
                       handled |-> r.handled,
                       raised |-> r.raised])

\* SpawnTracks that does not advance the id counter
RECURSIVE SpawnTracks_same_id(_, _, _, _, _, _)
SpawnTracks_same_id(dets, matched, timestamp, i, current, next_id) ==
    IF i > Len(dets)
    THEN [tracks |-> current, next_object_id |-> next_id]
    ELSE IF i \in matched
    THEN SpawnTracks_same_id(dets, matched, timestamp, i + 1, current, next_id)
    ELSE SpawnTracks_same_id(dets, matched, timestamp, i + 1,
                             Append(current, NewTrack(next_id, dets[i], timestamp)),
                             next_id)

\* SpawnTracks that puts a new track in front of the tracks kept so far
RECURSIVE SpawnTracks_new_tracks_first(_, _, _, _, _, _)
SpawnTracks_new_tracks_first(dets, matched, timestamp, i, current, next_id) ==
    IF i > Len(dets)
    THEN [tracks |-> current, next_object_id |-> next_id]
    ELSE IF i \in matched
    THEN SpawnTracks_new_tracks_first(dets, matched, timestamp, i + 1, current,
                                      next_id)
    ELSE SpawnTracks_new_tracks_first(dets, matched, timestamp, i + 1,
                                      << NewTrack(next_id, dets[i], timestamp) >>
                                          \o current,
                                      next_id + 1)

\* "Add new tracks for unmatched detections" of _update_tracking
RECURSIVE SpawnTracks(_, _, _, _, _, _)
SpawnTracks(dets, matched, timestamp, i, current, next_id) ==
    IF i > Len(dets)
    THEN [tracks |-> current, next_object_id |-> next_id]
    ELSE IF i \in matched
    THEN SpawnTracks(dets, matched, timestamp, i + 1, current, next_id)
    ELSE SpawnTracks(dets, matched, timestamp, i + 1,
                     Append(current, NewTrack(next_id, dets[i], timestamp)),
                     next_id + 1)

\* _update_tracking: the new track map, id counter, handled list and the
\* impacts returned; raised = TRUE when it ended with an exception, which
\* leaves the old map (with its objects as mutated so far) and the counter.
update_tracking(mode, center_x, tracks, next_id, handled, dets, timestamp) ==
    LET st == TrackLoop(mode, center_x, dets, timestamp, 1,
                        [objects |-> tracks, current |-> << >>, matched |-> {},
                         impacts |-> << >>, handled |-> handled, raised |-> FALSE])
        sp == SpawnTracks(dets, st.matched, timestamp, 1, st.current, next_id)
    IN IF st.raised
       THEN [tracks |-> st.objects, next_object_id |-> next_id,
             handled |-> st.handled, impacts |-> << >>, raised |-> TRUE]
       ELSE [tracks |-> sp.tracks, next_object_id |-> sp.next_object_id,
             handled |-> st.handled, impacts |-> st.impacts, raised |-> FALSE]

-----------------------------------------------------------------------------
(* ObjectDetectionBackend.poll                                              *)

\* _is_within_screen_bounds
is_within_screen_bounds(manager, cal, camera_pos) ==
    IF ~manager THEN TRUE ELSE manager_is_within_screen_bounds(cal, camera_pos)

\* _camera_to_game: Ok(point), or Raise for the None it returns when the
\* calibration manager raised
backend_camera_to_game(manager, cal, Hcp, camera_pos) ==
    IF ~manager
    THEN Ok([x |-> Fin(camera_pos.x, CameraResolution.width),
             y |-> Fin(camera_pos.y, CameraResolution.height)])
    ELSE camera_to_game(cal, Hcp, FPt(camera_pos))

\* is_valid_coordinate with the range [0, 1) instead of [0, 1]
is_valid_coordinate_half_open(pos) ==
    IF ~(IsFinite(pos.x) /\ IsFinite(pos.y))
    THEN FALSE
    ELSE IF ~(/\ FloatBetween(pos.x, 0, 1) /\ pos.x.n < pos.x.d
              /\ FloatBetween(pos.y, 0, 1) /\ pos.y.n < pos.y.d)
    THEN FALSE
    ELSE TRUE

\* is_valid_coordinate without the upper end of the range
is_valid_coordinate_no_upper(pos) ==
    IF ~(IsFinite(pos.x) /\ IsFinite(pos.y))
    THEN FALSE
    ELSE IF ~(pos.x.n >= 0 /\ pos.y.n >= 0)
    THEN FALSE
    ELSE TRUE

\* _is_valid_coordinate
is_valid_coordinate(pos) ==
    IF ~(IsFinite(pos.x) /\ IsFinite(pos.y))
    THEN FALSE
    ELSE IF ~(FloatBetween(pos.x, 0, 1) /\ FloatBetween(pos.y, 0, 1))
    THEN FALSE
    ELSE TRUE

PlaneHitEvent(x, y, timestamp) == [x |-> x, y |-> y, timestamp |-> timestamp]

\* ConvertImpacts that stops at the first impact it drops
RECURSIVE ConvertImpacts_stop_at_drop(_, _, _, _, _, _)
ConvertImpacts_stop_at_drop(manager, cal, Hcp, imps, i, evs) ==
    IF i > Len(imps)
    THEN evs
    ELSE IF ~is_within_screen_bounds(manager, cal, imps[i].position)
    THEN evs
    ELSE LET game_pos == backend_camera_to_game(manager, cal, Hcp, imps[i].position)
         IN IF game_pos.ok /\ is_valid_coordinate(game_pos.value)
            THEN ConvertImpacts_stop_at_drop(manager, cal, Hcp, imps, i + 1,
                     Append(evs, PlaneHitEvent(game_pos.value.x, game_pos.value.y,
                                               imps[i].timestamp)))
            ELSE evs

\* "Convert impacts to hit events" of poll(): the loop over impacts i..
RECURSIVE ConvertImpacts(_, _, _, _, _, _)
ConvertImpacts(manager, cal, Hcp, imps, i, evs) ==
    IF i > Len(imps)
    THEN evs
    ELSE IF ~is_within_screen_bounds(manager, cal, imps[i].position)
    THEN ConvertImpacts(manager, cal, Hcp, imps, i + 1, evs)
    ELSE LET game_pos == backend_camera_to_game(manager, cal, Hcp, imps[i].position)
         IN IF game_pos.ok /\ is_valid_coordinate(game_pos.value)
            THEN ConvertImpacts(manager, cal, Hcp, imps, i + 1,
                     Append(evs, PlaneHitEvent(game_pos.value.x, game_pos.value.y,
                                               imps[i].timestamp)))
            ELSE ConvertImpacts(manager, cal, Hcp, imps, i + 1, evs)

\* ColorBlobDetector._find_closest_previous: index of the first previous
\* detection at the smallest distance if that is below 200 px, else 0 (None)
find_closest_previous(prev, pos) ==
    IF prev = << >>
    THEN 0
    ELSE LET closest == CHOOSE i \in 1..Len(prev) :
                           /\ \A j \in 1..Len(prev) :
                                 Dist2(pos, prev[i].position) <= Dist2(pos, prev[j].position)
                           /\ \A j \in 1..(i - 1) :
                                 Dist2(pos, prev[j].position) > Dist2(pos, prev[i].position)
         IN IF Dist2(pos, prev[closest].position) < Sq(PreviousGate)
            THEN closest
            ELSE 0

\* Velocity detect() computes for a blob centred at pos (pixels per second)
blob_velocity(prev, prev_ts, pos, timestamp) ==
    IF prev_ts # NoneT /\ timestamp > prev_ts
    THEN LET dt == timestamp - prev_ts
             c == find_closest_previous(prev, pos)
         IN IF c # 0
            THEN Pt(((pos.x - prev[c].position.x) * TicksPerSecond) \div dt,
                    ((pos.y - prev[c].position.y) * TicksPerSecond) \div dt)
            ELSE Pt(0, 0)
    ELSE Pt(0, 0)

\* ColorBlobDetector.detect on a frame whose contours pass the area filter at
\* the given blobs: DetectedObject(..., contour=contour) raises TypeError for
\* the first of them, because the dataclass declares no contour field.
ColorBlobDetect(blobs, timestamp, prev, prev_ts) ==
    IF blobs # << >> /\ ~HasContourAttribute
    THEN Raise("TypeError")
    ELSE Ok([k \in 1..Len(blobs) |->
                Detection(blobs[k].position,
                          blob_velocity(prev, prev_ts, blobs[k].position, timestamp))])

\* How a call ended: value names what it returned or the exception it
\* raised, point is the point a transform returned
NoPoint == [none |-> TRUE]

Result(op, status, value) ==
    [op |-> op, status |-> status, value |-> value, point |-> NoPoint]

\* PollNoFrame that treats the missing frame as a frame without detections
PollNoFrame_drops_tracks ==
    /\ polls < MaxPolls
    /\ polls' = polls + 1
    /\ events' = << >>
    /\ tracked_objects' = << >>
    /\ outcome' = Result("poll", "returned", "no frame")
    /\ UNCHANGED <<next_object_id, handled_objects,
                   prev_detections, prev_timestamp, now, impacts>>
    /\ UNCHANGED <<managerVars, configVars, threadVars, debugVars, tipVars>>

\* poll() when capture_frame() returns None
PollNoFrame ==
    /\ polls < MaxPolls
    /\ polls' = polls + 1
    /\ events' = << >>
    /\ outcome' = Result("poll", "returned", "no frame")
    /\ UNCHANGED <<tracked_objects, next_object_id, handled_objects,
                   prev_detections, prev_timestamp, now, impacts>>
    /\ UNCHANGED <<managerVars, configVars, threadVars, debugVars, tipVars>>

\* int(f) of a float: raises for NaN and the infinities
IntOf(f) ==
    CASE f.k = "fin" -> Ok(IF f.n >= 0 THEN f.n \div f.d ELSE -((-f.n) \div f.d))
      [] f.k = "inf" -> Raise("OverflowError")
      [] OTHER -> Raise("ValueError")

\* The body of the try block of _create_debug_visualization for one game
\* target: the circle drawn, or the exception raised
TargetOverlay(cal, Hpc, target) ==
    LET proj_point == game_to_projector(cal, [x |-> target.x, y |-> target.y])
    IN IF ~proj_point.ok
       THEN proj_point
       ELSE LET cam_point == projector_to_camera(cal, Hpc, proj_point.value)
            IN IF ~cam_point.ok
               THEN cam_point
               ELSE LET cam_x == IntOf(cam_point.value.x)
                        cam_y == IntOf(cam_point.value.y)
                        r == IntOf(FMulInt(target.radius, 50))
                    IN IF ~cam_x.ok THEN cam_x
                       ELSE IF ~cam_y.ok THEN cam_y
                       ELSE IF ~r.ok THEN r
                       ELSE Ok([x |-> cam_x.value, y |-> cam_y.value,
                                radius |-> r.value])

\* The loop over game targets with an exception of the transforms let through
RECURSIVE DrawTargets_uncaught(_, _, _, _, _)
DrawTargets_uncaught(cal, Hpc, targets, i, drawn) ==
    IF i > Len(targets)
    THEN Ok(drawn)
    ELSE LET o == TargetOverlay(cal, Hpc, targets[i])
         IN IF o.ok
            THEN DrawTargets_uncaught(cal, Hpc, targets, i + 1, Append(drawn, o.value))
            ELSE o

\* The loop over game targets of _create_debug_visualization: a target whose
\* transformation fails is skipped (except Exception: pass)
RECURSIVE DrawTargets(_, _, _, _, _)
DrawTargets(cal, Hpc, targets, i, drawn) ==
    IF i > Len(targets)
    THEN Ok(drawn)
    ELSE LET o == TargetOverlay(cal, Hpc, targets[i])
         IN IF o.ok
            THEN DrawTargets(cal, Hpc, targets, i + 1, Append(drawn, o.value))
            ELSE DrawTargets(cal, Hpc, targets, i + 1, drawn)

\* ObjectDetectionBackend.debug_frame before the first visualization
NoFrame == [none |-> TRUE]

\* _create_debug_visualization: the frame with a circle and id per tracked
\* object, a circle per impact and a circle per game target, or the
\* exception it raised
create_debug_visualization(frame, manager, cal, Hpc, targets, tracks, imps) ==
    LET t == IF manager /\ targets # << >>
             THEN DrawTargets(cal, Hpc, targets, 1, << >>)
             ELSE Ok(<< >>)
    IN IF ~t.ok
       THEN t
       ELSE Ok([base |-> frame,
                tracks |-> [i \in 1..Len(tracks) |->
                               [x |-> tracks[i].last_detection.position.x,
                                y |-> tracks[i].last_detection.position.y,
                                object_id |-> tracks[i].object_id,
                                stationary |-> tracks[i].stationary_since # NoneT]],
                impacts |-> [i \in 1..Len(imps) |-> imps[i].position],
                targets |-> t.value])

\* poll() from "Convert impacts to hit events" on, after _update_tracking
\* returned t: the state poll() leaves and how it ends
poll_after_tracking(t, frame, timestamp, debug, targets, detections) ==
    LET tracked == [tracks |-> t.tracks, next_object_id |-> t.next_object_id,
                    handled |-> t.handled,
                    prev_detections |-> IF detector = "ColorBlobDetector"
                                        THEN detections ELSE prev_detections,
                    prev_timestamp |-> IF detector = "ColorBlobDetector"
                                       THEN timestamp ELSE prev_timestamp,
                    impacts |-> t.impacts, events |-> << >>,
                    debug_frame |-> debug_frame,
                    status |-> "raised", value |-> "AttributeError"]
    IN IF t.raised
       THEN tracked
       ELSE LET evs == ConvertImpacts(has_manager, calibration, H_cam_to_proj,
                                      t.impacts, 1, << >>)
                d == IF debug
                     THEN create_debug_visualization(frame, has_manager, calibration,
                                                     H_proj_to_cam, targets,
                                                     t.tracks, t.impacts)
                     ELSE Ok(debug_frame)
            IN IF ~d.ok
               THEN [tracked EXCEPT !.value = d.value]
               ELSE [tracked EXCEPT !.events = evs, !.debug_frame = d.value,
                                    !.status = "returned", !.value = "events"]

\* poll() on a frame in which the detector sees `frame`, at the given
\* timestamp, with the given debug_mode and game_targets: the state it leaves
\* and how it ends
poll(frame, timestamp, debug, targets) ==
    LET detected == IF detector = "ColorBlobDetector"
                    THEN ColorBlobDetect(frame, timestamp, prev_detections,
                                         prev_timestamp)
                    ELSE Ok(frame)
    IN IF ~detected.ok
       THEN [tracks |-> tracked_objects, next_object_id |-> next_object_id,
             handled |-> handled_objects, prev_detections |-> prev_detections,
             prev_timestamp |-> prev_timestamp, impacts |-> << >>,
             events |-> << >>, debug_frame |-> debug_frame,
             status |-> "raised", value |-> detected.value]
       ELSE CHOOSE r \in
                {poll_after_tracking(t, frame, timestamp, debug, targets,
                                     detected.value) :
                   t \in {update_tracking(impact_mode, camera_center_x,
                                          tracked_objects, next_object_id,
                                          handled_objects, detected.value,
                                          timestamp)}} : TRUE

\* poll() when capture_frame() returns a frame in which the detector sees
\* `frame` (a sequence of detections), dt ticks after the previous timestamp
PollWith(frame, dt, bound) ==
    /\ polls < bound
    /\ polls' = polls + 1
    /\ now' = now + dt
    /\ \E r \in {poll(frame, now + dt, debug_mode, game_targets)} :
         /\ tracked_objects' = r.tracks
         /\ next_object_id' = r.next_object_id
         /\ handled_objects' = r.handled
         /\ prev_detections' = r.prev_detections
         /\ prev_timestamp' = r.prev_timestamp
         /\ impacts' = r.impacts
         /\ events' = r.events
         /\ debug_frame' = r.debug_frame
         /\ outcome' = Result("poll", r.status, r.value)
    /\ UNCHANGED <<managerVars, configVars, threadVars, debug_mode, game_targets,
                   tipVars>>

PollFrame(Frames, Dts, bound) ==
    \E frame \in Frames, dt \in Dts : PollWith(frame, dt, bound)

\* ColorBlobConfig(): the fields with their defaults (durations in ticks)
ColorBlobConfig ==
    [hue_min |-> 0, hue_max |-> 10,
     saturation_min |-> 100, saturation_max |-> 255,
     value_min |-> 100, value_max |-> 255,
     erode_iterations |-> 2, dilate_iterations |-> 2,
     min_area |-> 50, max_area |-> 5000,
     impact_velocity_threshold |-> 10, impact_stationary_duration |-> 10]

\* The methods ColorBlobConfig defines: hasattr(config, name) is true for
\* them as it is for the fields
ColorBlobConfigMethods == {"get_hsv_lower", "get_hsv_upper"}

\* setattr(config, key, value) on the pydantic model: a name that is not a
\* field raises ValueError
config_setattr(cfg, key, value) ==
    IF key \in DOMAIN cfg
    THEN Ok([cfg EXCEPT ![key] = value])
    ELSE Raise("ValueError")

\* ColorBlobDetector.configure: the loop over kwargs.items() from item i on;
\* kwargs is the sequence of <<key, value>> in keyword order
RECURSIVE configure(_, _, _)
configure(cfg, kwargs, i) ==
    IF i > Len(kwargs)
    THEN [config |-> cfg, raised |-> ""]
    ELSE LET key == kwargs[i][1]
             value == kwargs[i][2]
         IN IF key \in DOMAIN cfg \cup ColorBlobConfigMethods
            THEN LET r == config_setattr(cfg, key, value)
                 IN IF r.ok
                    THEN configure(r.value, kwargs, i + 1)
                    ELSE [config |-> cfg, raised |-> r.value]
            ELSE configure(cfg, kwargs, i + 1)

\* configure_detector(**kwargs) with one given set of keywords
ConfigureWith(kwargs) ==
    /\ detector = "ColorBlobDetector"
    /\ LET r == configure(detector_config, kwargs, 1)
       IN /\ detector_config' = r.config
          /\ outcome' = Result("configure",
                               IF r.raised = "" THEN "returned" ELSE "raised",
                               IF r.raised = "" THEN "None" ELSE r.raised)
    /\ UNCHANGED <<impact_mode, detector, has_manager, camera_center_x,
                   impact_duration>>
    /\ UNCHANGED <<backendVars, managerVars, threadVars, debugVars, tipVars>>

\* configure_detector(**kwargs)
ConfigureDetector(Kwargs) == \E kwargs \in Kwargs : ConfigureWith(kwargs)

\* No _get_impact_point call made yet
NoCall == [contour |-> NoContour, detection_pos |-> [none |-> TRUE],
           point |-> [none |-> TRUE]]

\* self._get_impact_point(contour, detection_pos) called on the backend
GetImpactPoint(Contours, Positions) ==
    /\ \E contour \in Contours, detection_pos \in Positions :
         LET point == get_impact_point(camera_center_x, contour, detection_pos)
         IN /\ impact_point' = [contour |-> contour,
                                detection_pos |-> detection_pos,
                                point |-> point]
            /\ outcome' = [op |-> "_get_impact_point", status |-> "returned",
                           value |-> "Point2D", point |-> FPt(point)]
    /\ UNCHANGED <<backendVars, managerVars, configVars, threadVars, debugVars,
                   direction_call>>

\* No _calculate_direction_change call made yet
NoDirectionCall == [none |-> TRUE]

\* self._calculate_direction_change(v1, v2) called on the backend, with
\* vectors whose result is tabulated
CalculateDirectionChange(Vectors) ==
    /\ \E row \in DirectionChangeTable :
         /\ row.v1 \in Vectors
         /\ row.v2 \in Vectors
         /\ direction_call' = row
         /\ outcome' = Result("_calculate_direction_change", "returned", "float")
    /\ UNCHANGED <<backendVars, managerVars, configVars, threadVars, debugVars,
                   impact_point>>

\* set_debug_mode(enabled)
SetDebugMode ==
    /\ \E enabled \in BOOLEAN : debug_mode' = enabled
    /\ UNCHANGED <<backendVars, managerVars, configVars, threadVars, outcome,
                   game_targets, debug_frame, tipVars>>

\* set_game_targets(targets)
SetGameTargets(TargetLists) ==
    /\ \E targets \in TargetLists : game_targets' = targets
    /\ UNCHANGED <<backendVars, managerVars, configVars, threadVars, outcome,
                   debug_mode, debug_frame, tipVars>>

\* reset_handled_objects()
ResetHandledObjects ==
    /\ handled_objects' = << >>
    /\ UNCHANGED <<tracked_objects, next_object_id, prev_detections,
                   prev_timestamp, now, polls, impacts, events, outcome>>
    /\ UNCHANGED <<managerVars, configVars, threadVars, debugVars, tipVars>>

-----------------------------------------------------------------------------
(* CalibrationManager operations                                            *)

\* What CalibrationData.load raises on, instead of a CalibrationData
Unreadable == [unreadable |-> TRUE]

ManagerState(cal, Hcp, Hpc, raised) ==
    [calibration |-> cal, H_cam_to_proj |-> Hcp, H_proj_to_cam |-> Hpc,
     raised |-> raised]

\* load_calibration that computes the screen bounds from the homography
\* whether or not the file holds them
load_calibration_recomputes(m, file) ==
    IF file = Unreadable
    THEN ManagerState(m.calibration, m.H_cam_to_proj, m.H_proj_to_cam,
                      "FileNotFoundError")
    ELSE LET Hcp == to_numpy(file.homography_camera_to_projector)
         IN IF IsSingular(Hcp)
            THEN ManagerState(file, Hcp, m.H_proj_to_cam, "LinAlgError")
            ELSE LET Hpc == Inverse(Hcp)
                     sb == compute_screen_bounds(file, Hpc, file.projector_resolution)
                 IN ManagerState([file EXCEPT !.screen_bounds = sb.value],
                                 Hcp, Hpc, "")

\* load_calibration(filepath) on a manager in state m: file is the
\* CalibrationData the file holds, or Unreadable.  raised names the exception
\* the call ended with ("" for none).
load_calibration(m, file) ==
    IF file = Unreadable
    THEN ManagerState(m.calibration, m.H_cam_to_proj, m.H_proj_to_cam,
                      "FileNotFoundError")
    ELSE LET Hcp == to_numpy(file.homography_camera_to_projector)
         IN IF IsSingular(Hcp)
            THEN ManagerState(file, Hcp, m.H_proj_to_cam, "LinAlgError")
            ELSE LET Hpc == Inverse(Hcp)
                     sb == compute_screen_bounds(file, Hpc, file.projector_resolution)
                 IN ManagerState(IF file.screen_bounds = NoBounds
                                 THEN [file EXCEPT !.screen_bounds = sb.value]
                                 ELSE file,
                                 Hcp, Hpc, "")

\* calibrate_from_detections on a manager in state m.  attempt is what the
\* marker detector and compute_homography made of the camera frame: the
\* number of matched markers and the homography solved from them, together
\* with the resolutions passed in.  calibration is the CalibrationData
\* returned (NoCalibration when the call raised).
calibrate_from_detections(m, attempt) ==
    IF attempt.markers < min_markers_required
    THEN [state |-> ManagerState(m.calibration, m.H_cam_to_proj, m.H_proj_to_cam,
                                 "RuntimeError: Insufficient markers"),
          calibration |-> NoCalibration]
    ELSE LET Hcp == to_numpy(attempt.homography)
         IN IF IsSingular(Hcp)
            THEN [state |-> ManagerState(m.calibration, Hcp, m.H_proj_to_cam,
                                         "LinAlgError"),
                  calibration |-> NoCalibration]
            ELSE LET Hpc == Inverse(Hcp)
                     sb == compute_screen_bounds(m.calibration, Hpc,
                                                 attempt.projector_resolution)
                     calibration_data ==
                         [projector_resolution |-> attempt.projector_resolution,
                          camera_resolution |-> attempt.camera_resolution,
                          homography_camera_to_projector |-> attempt.homography,
                          screen_bounds |-> sb.value]
                 IN IF ~sb.ok
                    THEN [state |-> ManagerState(m.calibration, Hcp, Hpc, sb.value),
                          calibration |-> NoCalibration]
                    ELSE [state |-> ManagerState(calibration_data, Hcp, Hpc, ""),
                          calibration |-> calibration_data]

\* No thread is inside load_calibration or calibrate_from_detections; raised
\* names the exception the last such call of a second thread ended with
NoAttempt == [none |-> TRUE]
Idle(raised) == [pc |-> "idle", attempt |-> NoAttempt, raised |-> raised]
At(pc, attempt) == [pc |-> pc, attempt |-> attempt, raised |-> ""]

\* CalibrationManager.__init__(config, calibration_file)
NewManager == ManagerState(NoCalibration, NoMatrix, NoMatrix, "")

CurrentManager == ManagerState(calibration, H_cam_to_proj, H_proj_to_cam, "")

LoadCalibration(Files) ==
    /\ has_manager
    /\ \E file \in Files :
         LET m == load_calibration(CurrentManager, file)
         IN /\ calibration' = m.calibration
            /\ H_cam_to_proj' = m.H_cam_to_proj
            /\ H_proj_to_cam' = m.H_proj_to_cam
            /\ outcome' = Result("load_calibration",
                                 IF m.raised = "" THEN "returned" ELSE "raised",
                                 m.raised)
    /\ UNCHANGED <<backendVars, configVars, threadVars, debugVars, tipVars>>

\* load_calibration run by a second thread, one statement at a time, while
\* the first thread calls transforms and bounds queries between the
\* statements.  Line 73: the file is read and stored in _calibration.
LoadStoreCalibration(Files) ==
    /\ has_manager
    /\ loader.pc = "idle"
    /\ \E file \in Files :
         IF file = Unreadable
         THEN /\ loader' = Idle("FileNotFoundError")
              /\ UNCHANGED calibration
         ELSE /\ loader' = At("load_74", NoAttempt)
              /\ calibration' = file
    /\ UNCHANGED <<H_cam_to_proj, H_proj_to_cam, outcome, backendVars, configVars, debugVars, tipVars>>

\* Line 74: the forward matrix is cached
LoadStoreMatrix ==
    /\ loader.pc = "load_74"
    /\ H_cam_to_proj' = to_numpy(calibration.homography_camera_to_projector)
    /\ loader' = At("load_75", NoAttempt)
    /\ UNCHANGED <<calibration, H_proj_to_cam, outcome, backendVars, configVars, debugVars, tipVars>>

\* Line 75: the inverse is cached, or np.linalg.inv raises
LoadStoreInverse ==
    /\ loader.pc = "load_75"
    /\ IF IsSingular(H_cam_to_proj)
       THEN /\ loader' = Idle("LinAlgError")
            /\ UNCHANGED H_proj_to_cam
       ELSE /\ H_proj_to_cam' = Inverse(H_cam_to_proj)
            /\ loader' = At("load_82", NoAttempt)
    /\ UNCHANGED <<calibration, H_cam_to_proj, outcome, backendVars, configVars, debugVars, tipVars>>

\* Lines 82-88: screen bounds are computed and set if the file had none
LoadScreenBounds ==
    /\ loader.pc = "load_82"
    /\ IF calibration.screen_bounds = NoBounds
       THEN LET sb == compute_screen_bounds(calibration, H_proj_to_cam,
                                            calibration.projector_resolution)
            IN calibration' = [calibration EXCEPT !.screen_bounds = sb.value]
       ELSE UNCHANGED calibration
    /\ loader' = Idle("")
    /\ UNCHANGED <<H_cam_to_proj, H_proj_to_cam, outcome, backendVars, configVars, debugVars, tipVars>>

\* calibrate_from_detections run by a second thread.  Lines 296-366: markers
\* are detected, the homography is solved and the forward matrix is cached.
CalibrateStoreMatrix(Attempts) ==
    /\ has_manager
    /\ loader.pc = "idle"
    /\ \E attempt \in Attempts :
         IF attempt.markers < min_markers_required
         THEN /\ loader' = Idle("RuntimeError: Insufficient markers")
              /\ UNCHANGED H_cam_to_proj
         ELSE /\ loader' = At("calibrate_367", attempt)
              /\ H_cam_to_proj' = to_numpy(attempt.homography)
    /\ UNCHANGED <<calibration, H_proj_to_cam, outcome, backendVars, configVars, debugVars, tipVars>>

\* Line 367: the inverse is cached, or np.linalg.inv raises
CalibrateStoreInverse ==
    /\ loader.pc = "calibrate_367"
    /\ IF IsSingular(H_cam_to_proj)
       THEN /\ loader' = Idle("LinAlgError")
            /\ UNCHANGED H_proj_to_cam
       ELSE /\ H_proj_to_cam' = Inverse(H_cam_to_proj)
            /\ loader' = At("calibrate_371", loader.attempt)
    /\ UNCHANGED <<calibration, H_cam_to_proj, outcome, backendVars, configVars, debugVars, tipVars>>

\* Lines 371-391: screen bounds are computed (which raises on a manager with
\* no calibration), and the new CalibrationData is stored
CalibrateStoreCalibration ==
    /\ loader.pc = "calibrate_371"
    /\ LET attempt == loader.attempt
           sb == compute_screen_bounds(calibration, H_proj_to_cam,
                                       attempt.projector_resolution)
       IN IF ~sb.ok
          THEN /\ loader' = Idle(sb.value)
               /\ UNCHANGED calibration
          ELSE /\ loader' = Idle("")
               /\ calibration' =
                      [projector_resolution |-> attempt.projector_resolution,
                       camera_resolution |-> attempt.camera_resolution,
                       homography_camera_to_projector |-> attempt.homography,
                       screen_bounds |-> sb.value]
    /\ UNCHANGED <<H_cam_to_proj, H_proj_to_cam, outcome, backendVars, configVars, debugVars, tipVars>>

\* is_within_screen_bounds(camera_point) called on the manager; outcome
\* records the answer and the point asked about
IsWithinScreenBounds(Points) ==
    /\ has_manager
    /\ \E p \in Points :
         outcome' = [op |-> "is_within_screen_bounds", status |-> "returned",
                     value |-> IF manager_is_within_screen_bounds(calibration, p)
                               THEN "True" ELSE "False",
                     point |-> FPt(p)]
    /\ UNCHANGED <<backendVars, managerVars, configVars, threadVars, debugVars, tipVars>>

\* calibrate_from_detections(...) called on the manager
CalibrateFromDetections(Attempts) ==
    /\ has_manager
    /\ \E attempt \in Attempts :
         LET r == calibrate_from_detections(CurrentManager, attempt)
         IN /\ calibration' = r.state.calibration
            /\ H_cam_to_proj' = r.state.H_cam_to_proj
            /\ H_proj_to_cam' = r.state.H_proj_to_cam
            /\ outcome' = Result("calibrate_from_detections",
                                 IF r.state.raised = "" THEN "returned" ELSE "raised",
                                 r.state.raised)
    /\ UNCHANGED <<backendVars, configVars, threadVars, debugVars, tipVars>>

CallResult(op, r) ==
    [op |-> op, status |-> IF r.ok THEN "returned" ELSE "raised",
     value |-> IF r.ok THEN "point" ELSE r.value,
     point |-> IF r.ok THEN r.value ELSE NoPoint]

\* camera_to_game(camera_point) called on the manager
CameraToGame(Points) ==
    /\ has_manager
    /\ \E p \in Points :
         outcome' = CallResult("camera_to_game",
                               camera_to_game(calibration, H_cam_to_proj, p))
    /\ UNCHANGED <<backendVars, managerVars, configVars, threadVars, debugVars, tipVars>>

\* game_to_projector(game_point) called on the manager
GameToProjector(Points) ==
    /\ has_manager
    /\ \E p \in Points :
         outcome' = CallResult("game_to_projector",
                               game_to_projector(calibration, p))
    /\ UNCHANGED <<backendVars, managerVars, configVars, threadVars, debugVars, tipVars>>

\* projector_to_camera(projector_point) called on the manager
ProjectorToCamera(Points) ==
    /\ has_manager
    /\ \E p \in Points :
         outcome' = CallResult("projector_to_camera",
                               projector_to_camera(calibration, H_proj_to_cam, p))
    /\ UNCHANGED <<backendVars, managerVars, configVars, threadVars, debugVars, tipVars>>

-----------------------------------------------------------------------------
(* Inputs                                                                   *)

Modes == {"TRAJECTORY_CHANGE", "STATIONARY", "STUCK"}

\* Camera positions: PB is 20 px from PA (inside handled_radius and the gate),
\* PC is exactly MatchGate px from PA and 80 px from PB, PD lies outside the
\* camera frame.
PA == Pt(500, 500)
PB == Pt(520, 500)
PC == Pt(600, 500)
PD == Pt(1200, 500)

V0 == Pt(0, 0)
VP == Pt(100, 0)
VN == Pt(-100, 0)

Quad(x0, y0, x1, y1) ==
    [top_left |-> FPt(Pt(x0, y0)), top_right |-> FPt(Pt(x1, y0)),
     bottom_right |-> FPt(Pt(x1, y1)), bottom_left |-> FPt(Pt(x0, y1))]

CalibrationData(proj_w, proj_h, h, bounds) ==
    [projector_resolution |-> [width |-> proj_w, height |-> proj_h],
     camera_resolution |-> CameraResolution,
     homography_camera_to_projector |-> h,
     screen_bounds |-> bounds]

\* An older file without screen bounds: the projected screen is the camera
\* rectangle (400,400)-(800,600)
FileOld == CalibrationData(800, 400, Homography(2, 2, -800, -800), NoBounds)
\* A file with screen bounds wider than the projected screen
FileWide == CalibrationData(300, 400, Homography(2, 2, -800, -800),
                            Quad(0, 0, 1000, 1000))
\* A file whose homography overflows float32
FileHuge == CalibrationData(800, 400, Homography(Huge, 2, 0, -800),
                            Quad(0, 0, 1000, 1000))

\* A file whose homography is singular
FileSingular == CalibrationData(800, 400, Homography(0, 2, 0, -800), NoBounds)

CalibrationFiles == {Unreadable, FileOld, FileWide, FileHuge, FileSingular}

\* A well-formed file for another projector and camera placement
FileShift == CalibrationData(500, 500, Homography(1, 1, -250, -250), NoBounds)

\* The files a second thread loads while the first one transforms points
ThreadFiles == {Unreadable, FileOld, FileWide, FileShift}

\* Screen bounds a calibration file can hold: the camera frame, a trapezoid,
\* a quadrilateral that is concave at its bottom-left corner, a
\* self-intersecting one, and a screen that extends beyond the camera frame
BoundsTrapezoid ==
    [top_left |-> FPt(Pt(200, 0)), top_right |-> FPt(Pt(800, 0)),
     bottom_right |-> FPt(Pt(1000, 1000)), bottom_left |-> FPt(Pt(0, 1000))]
BoundsConcave ==
    [top_left |-> FPt(Pt(0, 0)), top_right |-> FPt(Pt(1000, 0)),
     bottom_right |-> FPt(Pt(1000, 1000)), bottom_left |-> FPt(Pt(800, 200))]
BoundsCrossed ==
    [top_left |-> FPt(Pt(0, 0)), top_right |-> FPt(Pt(1000, 0)),
     bottom_right |-> FPt(Pt(0, 1000)), bottom_left |-> FPt(Pt(1000, 1000))]

BoundsQuads == {Quad(0, 0, 1000, 1000), BoundsTrapezoid, BoundsConcave,
                BoundsCrossed, Quad(-5000, -5000, 5000, 5000)}

BoundsFiles ==
    {CalibrationData(800, 400, Homography(2, 2, -800, -800), q) : q \in BoundsQuads}

\* Camera points asked about: centroids, corners, points on edges, points
\* inside and outside, points far outside the camera frame
QueryPoints ==
    {Pt(500, 500), Pt(700, 300), Pt(0, 0), Pt(1000, 1000), Pt(800, 200),
     Pt(500, 0), Pt(1000, 500), Pt(100, 500), Pt(900, 500), Pt(900, 600),
     Pt(400, 100), Pt(250, 250), Pt(500, 1000), Pt(0, 500), Pt(-1, 500),
     Pt(1001, 500), Pt(3000, 3000), Pt(-5000, 0), Pt(5001, 0),
     Pt(100000, 100000), Pt(-100000, 500)}

\* What marker detection and homography solving made of a camera frame
Attempt(markers, proj_w, proj_h, h) ==
    [markers |-> markers,
     projector_resolution |-> [width |-> proj_w, height |-> proj_h],
     camera_resolution |-> CameraResolution,
     homography |-> h]

\* Too few markers; enough markers with two different solved homographies
CalibrationAttempts ==
    {Attempt(min_markers_required - 1, 800, 400, Homography(2, 2, -800, -800)),
     Attempt(min_markers_required, 800, 400, Homography(2, 2, -800, -800)),
     Attempt(min_markers_required, 500, 500, Homography(1, 1, -250, -250))}

CameraPoints == {FPt(Pt(0, 0)), FPt(PA), FPt(PB), FPt(PC), FPt(PD)}
GamePoints == {[x |-> Fin(a, 2), y |-> Fin(b, 2)] : a, b \in 0..2}
ProjectorPoints == {FPt(Pt(0, 0)), FPt(Pt(300, 400)), FPt(Pt(400, 200)), FPt(Pt(800, 400))}

\* The frames a backend in the given mode is shown: nothing; one detection at
\* PA or PB; detections at PD and PA; in STUCK mode also detections at PA and
\* PB.  The velocities are one below and one above the mode's speed
\* thresholds (two opposite ones in TRAJECTORY_CHANGE mode).
ModeVelocities(mode) == IF mode = "TRAJECTORY_CHANGE" THEN {VP, VN} ELSE {V0, VP}

ModeFrames(mode) ==
    {<< >>}
    \cup {<<Detection(p, v)>> : p \in {PA, PB}, v \in ModeVelocities(mode)}
    \cup {<<Detection(PD, v), Detection(PA, v)>> : v \in ModeVelocities(mode)}
    \cup (IF mode = "STUCK" THEN {<<Detection(PA, V0), Detection(PB, V0)>>} ELSE {})

\* Camera positions on, just inside and just outside the edges of the
\* camera frame, and the frames showing one bouncing detection at one of them
EdgePositions == {Pt(x, y) : x \in {-1, 0, 500, 1000, 1001}, y \in {-1, 0, 1000, 1001}}

EdgeFrames == {<<Detection(p, v)>> : p \in EdgePositions, v \in {VP, VN}}

\* A detection held stationary at (500, 500)
HeldFrame == <<Detection(PA, V0)>>

\* Frame periods of a regular cadence, in ticks
Cadences == {1, 2, 3, 4, 5, 6}

-----------------------------------------------------------------------------
(* Specifications                                                           *)

\* The state after CalibrationManager.__init__(config, file) and
\* ObjectDetectionBackend.__init__(camera, detector, manager, impact_mode).
\* manager is NoManager (no calibration manager), EmptyManager (a manager
\* without a calibration file) or the CalibrationData of the file it was given.
NoManager == [manager |-> "none"]
EmptyManager == [manager |-> "empty"]

\* ObjectDetectionBackend(..., impact_mode=mode, impact_duration=duration)
InitWithDuration(mode, det, manager, duration) ==
    LET m == IF manager \in {NoManager, EmptyManager} THEN NewManager
             ELSE load_calibration(NewManager, manager)
    IN /\ impact_mode = mode
       /\ detector = det
       /\ has_manager = (manager # NoManager)
       /\ calibration = m.calibration
       /\ H_cam_to_proj = m.H_cam_to_proj
       /\ H_proj_to_cam = m.H_proj_to_cam
       /\ camera_center_x = get_camera_geometry(m.calibration)
       /\ tracked_objects = << >>
       /\ next_object_id = 0
       /\ handled_objects = << >>
       /\ prev_detections = << >>
       /\ prev_timestamp = NoneT
       /\ now = 0
       /\ polls = 0
       /\ impacts = << >>
       /\ events = << >>
       /\ outcome = Result("__init__", "returned", "None")
       /\ loader = Idle("")
       /\ debug_mode = FALSE
       /\ game_targets = << >>
       /\ debug_frame = NoFrame
       /\ detector_config = ColorBlobConfig
       /\ impact_point = NoCall
       /\ direction_call = NoDirectionCall
       /\ impact_duration = duration

\* The constructor called with the default impact_duration
InitWith(mode, det, manager) ==
    InitWithDuration(mode, det, manager, DefaultImpactDuration)

Init ==
    \/ \E mode \in Modes : InitWith(mode, "ObjectDetector", NoManager)
    \/ \E mode \in {"TRAJECTORY_CHANGE", "STATIONARY"} :
           InitWith(mode, "ObjectDetector", FileWide)
    \/ InitWith("TRAJECTORY_CHANGE", "ObjectDetector", FileHuge)
    \/ InitWith("TRAJECTORY_CHANGE", "ColorBlobDetector", NoManager)

Next ==
    \/ PollFrame(ModeFrames(impact_mode), {10}, MaxPolls)
    \/ PollNoFrame
    \/ ResetHandledObjects

Spec == Init /\ [][Next]_vars

\* A detection held stationary at (500, 500) in every frame, STATIONARY mode,
\* frames 50 or 100 ms apart
InitHeld == InitWith("STATIONARY", "ObjectDetector", NoManager)

NextHeld == PollFrame({HeldFrame}, {5, 10}, MaxHeldPolls)

SpecHeld == InitHeld /\ [][NextHeld]_vars

\* The same detection polled at a regular cadence: the first frame at t = 0,
\* every later frame one period after the previous one
PollRegular ==
    \E dt \in IF polls = 0 THEN {0}
               ELSE IF polls = 1 THEN Cadences
               ELSE {now \div (polls - 1)} :
        PollWith(HeldFrame, dt, MaxCadencePolls)

NextCadence == PollRegular

SpecCadence == InitHeld /\ [][NextCadence]_vars

\* A backend without calibration manager in TRAJECTORY_CHANGE mode, shown
\* detections at the edges of the camera frame
InitEdge == InitWith("TRAJECTORY_CHANGE", "ObjectDetector", NoManager)

NextEdge == PollFrame(EdgeFrames, {10}, MaxEdgePolls)

SpecEdge == InitEdge /\ [][NextEdge]_vars

InitCalibration == InitWith("TRAJECTORY_CHANGE", "ObjectDetector", EmptyManager)

NextCalibration ==
    \/ LoadCalibration(CalibrationFiles)
    \/ CalibrateFromDetections(CalibrationAttempts)
    \/ CameraToGame(CameraPoints)
    \/ GameToProjector(GamePoints)
    \/ ProjectorToCamera(ProjectorPoints)
    \/ IsWithinScreenBounds({PA, PB})

SpecCalibration == InitCalibration /\ [][NextCalibration]_vars

\* Detections on one line, 40, 80 and 100 pixels from PA, each with a slow
\* velocity of its own (below every impact threshold of TRAJECTORY_CHANGE)
MatchPositions == {PA, Pt(540, 500), Pt(580, 500), PC}

MatchDetection(p) == Detection(p, Pt((p.x - PA.x) \div 10, 0))

\* Frames with no detection, one detection, or two detections at different
\* positions in either order
MatchFrames ==
    {<< >>}
    \cup {<< MatchDetection(p) >> : p \in MatchPositions}
    \cup {f \in {<< MatchDetection(p), MatchDetection(q) >> :
                    p \in MatchPositions, q \in MatchPositions} :
            f[1] # f[2]}

InitMatch == InitWith("TRAJECTORY_CHANGE", "ObjectDetector", NoManager)

NextMatch == PollFrame(MatchFrames, {10}, MaxMatchPolls)

SpecMatch == InitMatch /\ [][NextMatch]_vars

\* Velocities at, below and above min_impact_velocity, along both axes and
\* in both directions, whose differences lie at, below and above
\* velocity_change_threshold
BounceVelocities ==
    {V0, Pt(40, 0), Pt(50, 0), Pt(60, 0), Pt(0, 60), Pt(150, 0), Pt(-60, 0)}

\* Frames with no detection, or one detection at PA or PB
BounceFrames ==
    {<< >>} \cup {<< Detection(p, v) >> : p \in {PA, PB}, v \in BounceVelocities}

InitBounce == InitWith("TRAJECTORY_CHANGE", "ObjectDetector", NoManager)

NextBounce == PollFrame(BounceFrames, {10}, MaxBouncePolls)

SpecBounce == InitBounce /\ [][NextBounce]_vars

\* Frames with no detection, or one detection at PA that is at rest or moves
\* at exactly impact_velocity_threshold
StationaryFrames ==
    {<< >>, << Detection(PA, V0) >>, << Detection(PA, Pt(10, 0)) >>}

NextStationary == PollFrame(StationaryFrames, {5, 10}, MaxStationaryPolls)

SpecStationary == InitHeld /\ [][NextStationary]_vars

\* Frames with no detection, a detection at PA that is at rest or moves at
\* exactly the stuck threshold, and detections at rest at PA and far away at PD
StuckFrames ==
    {<< >>, << Detection(PA, V0) >>, << Detection(PA, Pt(5, 0)) >>,
     << Detection(PA, V0), Detection(PD, V0) >>}

\* Contour points around the camera center (x = 500): two of them share the
\* largest x and two the smallest
TipPoints == {Pt(480, 490), Pt(480, 505), Pt(520, 500), Pt(520, 510), Pt(500, 495)}

\* No contour, and every contour of 2..MaxContourLen points
TipContours ==
    {NoContour} \cup
    UNION {[1..n -> TipPoints] : n \in 2..MaxContourLen}

\* Detection centers left of, exactly at, and right of the camera center
TipPositions == {Pt(499, 500), Pt(500, 500), Pt(501, 500)}

\* A STUCK backend without calibration (center unknown) or with one
InitTip ==
    \E manager \in {NoManager, FileOld} :
        InitWith("STUCK", "ObjectDetector", manager)

NextTip == GetImpactPoint(TipContours, TipPositions)

SpecTip == InitTip /\ [][NextTip]_vars

\* A backend in any mode, with impact_duration 0 or the default
InitLatency ==
    \E mode \in Modes, duration \in {0, DefaultImpactDuration} :
        InitWithDuration(mode, "ObjectDetector", NoManager, duration)

NextLatency == PollFrame(ModeFrames(impact_mode), {10}, MaxLatencyPolls)

SpecLatency == InitLatency /\ [][NextLatency]_vars

\* Frames with no detection, or one detection at PA that is at rest, moves
\* right at 60, 100 or 150, or moves left at 100
DirectionFrames ==
    {<< >>} \cup {<< Detection(PA, v) >> :
                    v \in {V0, Pt(60, 0), Pt(100, 0), Pt(150, 0), Pt(-100, 0)}}

InitDirection == InitWith("TRAJECTORY_CHANGE", "ObjectDetector", NoManager)

NextDirection ==
    \/ CalculateDirectionChange(DirectionVectors)
    \/ PollFrame(DirectionFrames, {10}, MaxDirectionPolls)

SpecDirection == InitDirection /\ [][NextDirection]_vars

\* Frames with no detection, a detection at PA at rest or moving, and a
\* detection at rest at PA together with a moving one far away at PD
HistoryFrames ==
    {<< >>, << Detection(PA, V0) >>, << Detection(PA, Pt(10, 0)) >>,
     << Detection(PA, V0), Detection(PD, Pt(10, 0)) >>}

\* Intervals between polls in ticks: 0.3 s and 0.5 s
HistoryDts == {30, 50}

InitHistory == \E mode \in Modes : InitWith(mode, "ObjectDetector", NoManager)

NextHistory == PollFrame(HistoryFrames, HistoryDts, MaxHistoryPolls)

SpecHistory == InitHistory /\ [][NextHistory]_vars

InitStuck == InitWith("STUCK", "ObjectDetector", NoManager)

NextStuck == PollFrame(StuckFrames, {10}, MaxStuckPolls)

SpecStuck == InitStuck /\ [][NextStuck]_vars

\* A backend in any mode whose calibration manager has loaded nothing
InitUncalibrated ==
    \E mode \in Modes : InitWith(mode, "ObjectDetector", EmptyManager)

NextUncalibrated ==
    PollFrame(ModeFrames(impact_mode), {10}, MaxUncalibratedPolls)

SpecUncalibrated == InitUncalibrated /\ [][NextUncalibrated]_vars

\* A STUCK backend polled with the frames of SpecStuck, with
\* reset_handled_objects() called at any time
NextReset ==
    \/ PollFrame(StuckFrames, {10}, MaxResetPolls)
    \/ ResetHandledObjects

SpecReset == InitStuck /\ [][NextReset]_vars

\* Keywords passed to configure_detector: area and hue fields, a keyword
\* that names nothing, and a keyword that names a method of the config
ConfigureKeys == {"min_area", "max_area", "hue_min", "threshold", "get_hsv_lower"}
ConfigureValues == {1, 200}

\* One keyword, or two different keywords in either order
ConfigureKwargs ==
    {<< <<k, v>> >> : k \in ConfigureKeys, v \in ConfigureValues}
    \cup {kw \in {<< <<k1, v1>>, <<k2, v2>> >> :
                      k1 \in ConfigureKeys, k2 \in ConfigureKeys,
                      v1 \in ConfigureValues, v2 \in ConfigureValues} :
             kw[1][1] # kw[2][1]}

\* A backend with a ColorBlobDetector that is reconfigured between polls of
\* frames without blobs
InitConfigure == InitWith("TRAJECTORY_CHANGE", "ColorBlobDetector", NoManager)

NextConfigure ==
    \/ ConfigureDetector(ConfigureKwargs)
    \/ PollFrame({<< >>}, {10}, MaxConfigurePolls)

SpecConfigure == InitConfigure /\ [][NextConfigure]_vars

\* A game target of set_game_targets: (x, y, radius, color) in normalized
\* coordinates (the color is not read)
Target(x, y, radius) == [x |-> x, y |-> y, radius |-> radius]

\* No targets; one target at the centre; a target with an infinite
\* coordinate followed by the one at the centre
TargetLists ==
    {<< >>,
     << Target(Fin(1, 2), Fin(1, 2), Fin(1, 10)) >>,
     << Target(PosInf, Fin(1, 2), Fin(1, 10)),
        Target(Fin(1, 2), Fin(1, 2), Fin(1, 10)) >>}

\* A backend without a manager, with an uncalibrated one and with a
\* calibrated one, whose debug mode and game targets are changed between polls
InitDebug ==
    \E mode \in {"TRAJECTORY_CHANGE", "STATIONARY"},
       manager \in {NoManager, EmptyManager, FileWide} :
        InitWith(mode, "ObjectDetector", manager)

NextDebug ==
    \/ PollFrame(ModeFrames(impact_mode), {10}, MaxDebugPolls)
    \/ SetDebugMode
    \/ SetGameTargets(TargetLists)

SpecDebug == InitDebug /\ [][NextDebug]_vars

\* One thread runs load_calibration or calibrate_from_detections statement
\* by statement; another calls transforms and bounds queries in between
NextThreads ==
    \/ LoadStoreCalibration(ThreadFiles)
    \/ LoadStoreMatrix
    \/ LoadStoreInverse
    \/ LoadScreenBounds
    \/ CalibrateStoreMatrix(CalibrationAttempts)
    \/ CalibrateStoreInverse
    \/ CalibrateStoreCalibration
    \/ CameraToGame(CameraPoints)
    \/ ProjectorToCamera(ProjectorPoints)
    \/ IsWithinScreenBounds({PA, PB})

SpecThreads == InitCalibration /\ [][NextThreads]_vars

\* A calibration manager that loads files with different screen bounds and
\* is asked about camera points
NextBounds ==
    \/ LoadCalibration(BoundsFiles)
    \/ IsWithinScreenBounds(QueryPoints)

SpecBounds == InitCalibration /\ [][NextBounds]_vars

-----------------------------------------------------------------------------
(* Properties                                                               *)

Ids(tracks) == {tracks[i].object_id : i \in 1..Len(tracks)}

TrackById(tracks, id) ==
    tracks[CHOOSE i \in 1..Len(tracks) : tracks[i].object_id = id]

ImpactsOf(imps, id) == SelectSeq(imps, LAMBDA i : i.track = id)

\* The step is a poll() that captured a frame and returned
FramePollStep == polls' = polls + 1 /\ outcome' = Result("poll", "returned", "events")

\* The step is a poll() whose capture_frame() returned None
NoFramePollStep == polls' = polls + 1 /\ outcome' = Result("poll", "returned", "no frame")

\* 0 <= f <= 1 for a finite float f
InUnitInterval(f) == f.k = "fin" /\ 0 <= f.n /\ f.n <= f.d

\* The game-space coordinate poll() computes for an impact
GameCoordinate(impact) ==
    backend_camera_to_game(has_manager, calibration, H_cam_to_proj, impact.position)

\* C1: every hit event poll() returns has finite coordinates with
\* 0 <= x <= 1 and 0 <= y <= 1; an impact whose game-space coordinate is
\* non-finite or outside [0, 1] is dropped, so the events of a poll never
\* outnumber its impacts with an acceptable coordinate.
C1_EventsHaveValidCoordinates ==
    /\ \A i \in 1..Len(events) :
         InUnitInterval(events[i].x) /\ InUnitInterval(events[i].y)
    /\ outcome = Result("poll", "returned", "events") =>
         Len(events) <= Cardinality({i \in 1..Len(impacts) :
                                       /\ GameCoordinate(impacts[i]).ok
                                       /\ InUnitInterval(GameCoordinate(impacts[i]).value.x)
                                       /\ InUnitInterval(GameCoordinate(impacts[i]).value.y)})

\* An impact inside the screen bounds whose game x is infinite produced no event
C1_Witness ==
    /\ outcome = Result("poll", "returned", "events")
    /\ Len(impacts) = 1
    /\ is_within_screen_bounds(has_manager, calibration, impacts[1].position)
    /\ GameCoordinate(impacts[1]).ok
    /\ GameCoordinate(impacts[1]).value.x.k = "inf"
    /\ events = << >>

C2_IdsInvariant ==
    /\ \A i, j \in 1..Len(tracked_objects) :
         i # j => tracked_objects[i].object_id # tracked_objects[j].object_id
    /\ \A id \in Ids(tracked_objects) : 0 <= id /\ id < next_object_id

C2_IdsStep ==
    /\ next_object_id' >= next_object_id
    /\ Ids(tracked_objects') \ Ids(tracked_objects)
         = next_object_id..(next_object_id' - 1)

\* C2: track ids are allocated 0, 1, 2, ... in increasing order: the counter
\* starts at 0 and never decreases, the tracks a step adds carry exactly the
\* ids the counter passed in that step (so an id is never reused, not even
\* after its track was dropped), the live tracks have pairwise distinct ids,
\* and every live id is below next_object_id.
C2_TrackIdsUniqueIncreasing ==
    /\ next_object_id = 0
    /\ []C2_IdsInvariant
    /\ [][C2_IdsStep]_vars

\* Ids 0 and 1 were dropped and the only live track carries id 2
C2_Witness ==
    /\ next_object_id = 3
    /\ Ids(tracked_objects) = {2}

\* C5: in TRAJECTORY_CHANGE mode (min_impact_velocity = 50 <= 100), the cycle
\* in which a matched track goes from velocity (100, 0) to (-100, 0) emits
\* exactly one impact for that track, at the position the track had before
\* the cycle and with velocity_before (100, 0); a cycle in which a matched
\* track keeps its velocity emits no impact for it, and no impact belongs to
\* a track created in the same cycle.
C5_BounceEmitsOneImpactAtPreviousPosition ==
    [][(impact_mode = "TRAJECTORY_CHANGE" /\ FramePollStep) =>
         /\ \A id \in Ids(tracked_objects) \cap Ids(tracked_objects') :
              LET prev == TrackById(tracked_objects, id).last_detection
                  cur == TrackById(tracked_objects', id).last_detection
                  emitted == ImpactsOf(impacts', id)
              IN /\ (prev.velocity = VP /\ cur.velocity = VN) =>
                      /\ Len(emitted) = 1
                      /\ emitted[1].position = prev.position
                      /\ emitted[1].velocity_before = VP
                      /\ emitted[1].timestamp = now'
                 /\ prev.velocity = cur.velocity => emitted = << >>
         /\ \A i \in 1..Len(impacts') :
              impacts'[i].track \in Ids(tracked_objects) \cap Ids(tracked_objects')
      ]_vars

\* The track bounced while moving from PA to PB: its impact is at PA
C5_Witness ==
    /\ impact_mode = "TRAJECTORY_CHANGE"
    /\ outcome = Result("poll", "returned", "events")
    /\ Len(impacts) = 1
    /\ impacts[1].position = PA
    /\ impacts[1].velocity_before = VP
    /\ Len(tracked_objects) = 1
    /\ tracked_objects[1].object_id = impacts[1].track
    /\ tracked_objects[1].last_detection = Detection(PB, VN)

\* C7: a poll() whose capture_frame() returns None returns an empty event
\* list and leaves the tracks, the handled list, next_object_id and the
\* detector's previous detections and timestamp as they were.
C7_NoFramePollChangesNothing ==
    [][NoFramePollStep =>
         /\ events' = << >>
         /\ UNCHANGED <<tracked_objects, next_object_id, handled_objects,
                        prev_detections, prev_timestamp>>
      ]_vars

\* A poll without a frame returned while a track with a running stationary
\* timer is live
C7_Witness ==
    /\ outcome = Result("poll", "returned", "no frame")
    /\ events = << >>
    /\ \E i \in 1..Len(tracked_objects) :
         tracked_objects[i].stationary_since # NoneT

\* The impact passes the bounds test and then the coordinate validation
PassesFilters(impact) ==
    /\ is_within_screen_bounds(has_manager, calibration, impact.position)
    /\ GameCoordinate(impact).ok
    /\ is_valid_coordinate(GameCoordinate(impact).value)

EventOf(impact) ==
    PlaneHitEvent(GameCoordinate(impact).value.x, GameCoordinate(impact).value.y,
                  impact.timestamp)

\* C8: the events of a poll() are exactly its impacts that pass the bounds
\* test and then the coordinate validation, in impact order, each with its
\* impact's timestamp and game coordinate; a dropped impact neither raises
\* nor keeps a later impact of the same poll from becoming an event (poll
\* raises only in the detector or in the STUCK branch).
C8_EventsAreFilteredImpacts ==
    /\ outcome = Result("poll", "returned", "events") =>
         LET kept == SelectSeq(impacts, PassesFilters)
         IN events = [k \in 1..Len(kept) |-> EventOf(kept[k])]
    /\ (outcome.op = "poll" /\ outcome.status = "raised") =>
         (impact_mode = "STUCK" \/ detector = "ColorBlobDetector")

\* The first of two impacts was dropped and the second became the event
C8_Witness ==
    /\ outcome = Result("poll", "returned", "events")
    /\ Len(impacts) = 2
    /\ ~PassesFilters(impacts[1])
    /\ PassesFilters(impacts[2])
    /\ events = << EventOf(impacts[2]) >>

Transforms == {"camera_to_game", "game_to_projector", "projector_to_camera"}

\* C9: on a manager with no calibration loaded, camera_to_game,
\* game_to_projector and projector_to_camera each raise the precondition
\* error (RuntimeError) and leave the calibration and both cached matrices
\* as they were.
C9_UncalibratedTransformsRaise ==
    [][(calibration = NoCalibration /\ outcome'.op \in Transforms) =>
         /\ outcome'.status = "raised"
         /\ outcome'.value = "RuntimeError"
         /\ UNCHANGED managerVars
      ]_vars

\* projector_to_camera raised on a manager that has nothing loaded
C9_Witness ==
    /\ calibration = NoCalibration
    /\ outcome.op = "projector_to_camera"
    /\ outcome.status = "raised"
    /\ outcome.value = "RuntimeError"

\* C3: in STATIONARY mode, with a detection held at speed 0 at the same
\* position in every cycle, no impact is emitted before impact_duration has
\* elapsed, exactly one impact is emitted over the whole sequence (every
\* impact is the first track's), and once that track is retired the
\* detection is not tracked again (no second track is ever created).
C3_HeldTrackEmitsOnceAndStaysGone ==
    /\ \A k \in 1..Len(impacts) :
         /\ impacts[k].stationary_duration >= impact_duration
         /\ impacts[k].track = 0
    /\ next_object_id <= 1

\* C4: in STUCK mode, every track that stayed below the stuck threshold for
\* stuck_confirm_frames consecutive matched cycles has produced an impact:
\* exactly one handled record (one impact) lies within handled_radius of it,
\* also when two such tracks are within handled_radius of each other.
C4_ConfirmedStuckTracksShareOneImpact ==
    impact_mode = "STUCK" =>
        \A i \in 1..Len(tracked_objects) :
            tracked_objects[i].stationary_frames >= stuck_confirm_frames =>
                Cardinality({h \in 1..Len(handled_objects) :
                               Dist2(handled_objects[h].position,
                                     tracked_objects[i].last_detection.position)
                                   < Sq(handled_radius)}) = 1

\* C6: the detection held stationary at (500, 500) from t = 0 and polled at
\* a regular cadence yields exactly one hit event, at (0.5, 0.5), with its
\* timestamp in [0.15, 0.20): no poll returns more than one event and no
\* event carries a timestamp outside that interval.
C6_HeldDetectionYieldsOneEventInWindow ==
    /\ Len(events) <= 1
    /\ \A k \in 1..Len(events) :
         /\ events[k].x = Fin(PA.x, CameraResolution.width)
         /\ events[k].y = Fin(PA.y, CameraResolution.height)
         /\ 15 * TicksPerSecond <= 100 * events[k].timestamp
         /\ 100 * events[k].timestamp < 20 * TicksPerSecond

\* A poll() of Spec that captured the given frame
FrameStep(frame) == PollWith(frame, 10, MaxPolls)

InCameraFrame(p) ==
    /\ 0 <= p.x /\ p.x <= CameraResolution.width
    /\ 0 <= p.y /\ p.y <= CameraResolution.height

\* C12: without a calibration manager no impact is filtered by screen
\* bounds, and the events of a poll() are exactly its impacts at camera
\* pixels (px, py) with 0 <= px <= camera_width and 0 <= py <= camera_height,
\* in order, each at game coordinate (px / camera_width, py / camera_height)
\* with the impact's timestamp.
C12_LinearScalingWithoutManager ==
    (~has_manager /\ outcome = Result("poll", "returned", "events")) =>
        LET kept == SelectSeq(impacts, LAMBDA i : InCameraFrame(i.position))
        IN events = [k \in 1..Len(kept) |->
                        [x |-> Fin(kept[k].position.x, CameraResolution.width),
                         y |-> Fin(kept[k].position.y, CameraResolution.height),
                         timestamp |-> kept[k].timestamp]]

\* An impact on the right and top edge of the camera frame became the event
\* at game coordinate (1, 0)
C12_Witness ==
    /\ ~has_manager
    /\ Len(impacts) = 1
    /\ impacts[1].position = Pt(1000, 0)
    /\ Len(events) = 1
    /\ events[1].x = Fin(1000, 1000)
    /\ events[1].y = Fin(0, 1000)

\* C13: in STUCK mode a poll() never raises; when a detection reaches
\* stuck_confirm_frames without a contour or without known camera geometry,
\* the poll completes and the impact it emits lies at the raw centroid of
\* the detection the track was matched to.
C13_StuckTipEstimationNeverFatal ==
    impact_mode = "STUCK" =>
        /\ outcome.status # "raised"
        /\ \A k \in 1..Len(impacts) :
             /\ impacts[k].track \in Ids(tracked_objects)
             /\ impacts[k].position
                  = TrackById(tracked_objects, impacts[k].track).last_detection.position

\* C14: ColorBlobDetector.detect never raises: a poll() through the colour
\* blob detector always completes, and the detector's previous detections
\* are the blobs of the last frame that passed the area filter.
C14_ColorBlobDetectNeverRaises ==
    detector = "ColorBlobDetector" =>
        /\ outcome.status # "raised"
        /\ outcome = Result("poll", "returned", "events") =>
             Len(prev_detections) = Len(tracked_objects)

\* C15: calibrate_from_detections raises only for insufficient markers;
\* otherwise (also on a manager that had no calibration loaded) it returns,
\* and the manager is then calibrated with screen bounds and both matrices.
C15_FirstCalibrationSucceeds ==
    outcome.op = "calibrate_from_detections" =>
        \/ outcome.value = "RuntimeError: Insufficient markers"
        \/ /\ outcome.status = "returned"
           /\ is_calibrated(calibration)
           /\ calibration.screen_bounds # NoBounds
           /\ H_cam_to_proj # NoMatrix
           /\ H_proj_to_cam # NoMatrix

\* Two points with float coordinates are equal
SamePoint(p, q) == FEq(p.x, q.x) /\ FEq(p.y, q.y)

\* projector_to_camera(game_to_projector(camera_to_game(p))) = p on the
\* manager as it is
CameraRoundTrip(p) ==
    LET g == camera_to_game(calibration, H_cam_to_proj, p)
    IN IF ~g.ok THEN FALSE
       ELSE LET q == game_to_projector(calibration, g.value)
            IN IF ~q.ok THEN FALSE
               ELSE LET c == projector_to_camera(calibration, H_proj_to_cam, q.value)
                    IN c.ok /\ SamePoint(c.value, p)

\* camera_to_game(projector_to_camera(game_to_projector(g))) = g on the
\* manager as it is
GameRoundTrip(g) ==
    LET q == game_to_projector(calibration, g)
    IN IF ~q.ok THEN FALSE
       ELSE LET c == projector_to_camera(calibration, H_proj_to_cam, q.value)
            IN IF ~c.ok THEN FALSE
               ELSE LET r == camera_to_game(calibration, H_cam_to_proj, c.value)
                    IN r.ok /\ SamePoint(r.value, g)

\* C16: whenever the manager is calibrated, camera_to_game, game_to_projector
\* and projector_to_camera compose to the identity on camera points, and
\* game_to_projector, projector_to_camera and camera_to_game compose to the
\* identity on game points.
C16_TransformsRoundTrip ==
    is_calibrated(calibration) =>
        /\ \A p \in CameraPoints : CameraRoundTrip(p)
        /\ \A g \in GamePoints : GameRoundTrip(g)

\* The corners of the loaded screen bounds, clockwise from top-left
Corners == to_numpy_polygon(calibration.screen_bounds)

\* The centroid of the four corners (the corner sums of BoundsQuads are
\* multiples of 4)
Centroid ==
    Pt((Corners[1].x + Corners[2].x + Corners[3].x + Corners[4].x) \div 4,
       (Corners[1].y + Corners[2].y + Corners[3].y + Corners[4].y) \div 4)

\* The point lies on one of the four edges
OnEdge(p) ==
    \E i \in 1..4 : OnSegment(p, Corners[i], Corners[(i % 4) + 1])

\* The quadrilateral turns the same way at each corner
IsConvex ==
    LET turn(i) == Cross(Corners[i], Corners[(i % 4) + 1], Corners[((i + 1) % 4) + 1])
    IN (\A i \in 1..4 : turn(i) > 0) \/ (\A i \in 1..4 : turn(i) < 0)

\* The point lies outside the bounding box of the four corners
OutsideBoundingBox(p) ==
    \/ \A i \in 1..4 : p.x < Corners[i].x
    \/ \A i \in 1..4 : p.x > Corners[i].x
    \/ \A i \in 1..4 : p.y < Corners[i].y
    \/ \A i \in 1..4 : p.y > Corners[i].y

\* The point lies far outside the camera frame
FarOutsideCameraFrame(p) ==
    \/ p.x < -CameraResolution.width \/ p.x > 2 * CameraResolution.width
    \/ p.y < -CameraResolution.height \/ p.y > 2 * CameraResolution.height

\* The last call asked is_within_screen_bounds about a point while a
\* calibration with screen bounds was loaded
BoundsQueryDone ==
    /\ outcome.op = "is_within_screen_bounds"
    /\ is_calibrated(calibration)
    /\ calibration.screen_bounds # NoBounds

QueryPoint == Pt(Px(outcome.point.x), Px(outcome.point.y))

\* C17 as stated: for every screen bounds a loaded calibration holds,
\* is_within_screen_bounds is true for the centroid of the four corners and
\* for points on an edge, and false for a point far outside the camera frame.
C17_CentroidInsideFarPointOutside ==
    BoundsQueryDone =>
        /\ QueryPoint = Centroid => outcome.value = "True"
        /\ OnEdge(QueryPoint) => outcome.value = "True"
        /\ FarOutsideCameraFrame(QueryPoint) => outcome.value = "False"

\* C17 (amended): with screen bounds loaded, is_within_screen_bounds is true
\* for every point on an edge of the quadrilateral, true for the centroid
\* of the four corners when the quadrilateral is convex, and false for
\* every point outside the bounding box of the four corners.
C17_ConvexCentroidInsideOutsideBoxOutside ==
    BoundsQueryDone =>
        /\ (IsConvex /\ QueryPoint = Centroid) => outcome.value = "True"
        /\ OnEdge(QueryPoint) => outcome.value = "True"
        /\ OutsideBoundingBox(QueryPoint) => outcome.value = "False"

\* The query about the middle of the trapezoid's slanted right edge
\* returned True
C17_Witness ==
    /\ BoundsQueryDone
    /\ calibration.screen_bounds = BoundsTrapezoid
    /\ QueryPoint = Pt(900, 500)
    /\ OnEdge(QueryPoint)
    /\ outcome.value = "True"

\* The cached matrices and the screen bounds belong to the stored calibration
ManagerConsistent ==
    /\ H_cam_to_proj = to_numpy(calibration.homography_camera_to_projector)
    /\ H_proj_to_cam # NoMatrix
    /\ H_proj_to_cam = Inverse(H_cam_to_proj)
    /\ calibration.screen_bounds # NoBounds

\* A step in which camera_to_game, projector_to_camera or
\* is_within_screen_bounds ran
ReaderStep ==
    /\ UNCHANGED <<managerVars, threadVars>>
    /\ outcome'.op \in {"camera_to_game", "projector_to_camera",
                        "is_within_screen_bounds"}

\* C18: a transform or bounds query that runs interleaved with
\* load_calibration or calibrate_from_detections either raises the
\* not-calibrated error or finds a homography, its inverse, the resolution
\* and the screen bounds of one and the same calibration; it never finds
\* is_calibrated() true with a missing or stale matrix.
C18_ReadersSeeOneCalibration ==
    [][ReaderStep =>
         /\ is_calibrated(calibration) => ManagerConsistent
         /\ outcome'.status = "raised" =>
                (~is_calibrated(calibration) /\ outcome'.value = "RuntimeError")
      ]_vars

\* What a poll() leaves that the game and the tracker read: how it ended,
\* the events returned, the track map, the handled list and next_object_id
Observable(r) ==
    <<r.status, r.value, r.events, r.tracks, r.handled, r.next_object_id>>

DebugFrameStep(frame) == PollWith(frame, 10, MaxDebugPolls)

\* C19: a poll() of a frame ends the same way, returns the same events and
\* leaves the same track map, handled list and next_object_id as it would
\* with any other setting of debug_mode and any other game targets, so two
\* runs over the same frames and timestamps that differ only in these
\* settings stay equal in all of them.
C19_DebugVisualizationObservationalOnly ==
    [][\A frame \in ModeFrames(impact_mode) :
         DebugFrameStep(frame) =>
            \A debug \in BOOLEAN, targets \in TargetLists :
               Observable(poll(frame, now + 10, debug, targets))
                 = <<outcome'.status, outcome'.value, events', tracked_objects',
                     handled_objects', next_object_id'>>
      ]_vars

\* A poll with debug mode on and two game targets set, on a calibrated
\* backend, returned an event; the visualization shows the impact and the
\* one target whose transformation did not fail
C19_Witness ==
    /\ debug_mode
    /\ Len(game_targets) = 2
    /\ is_calibrated(calibration)
    /\ outcome.op = "poll"
    /\ events # << >>
    /\ debug_frame # NoFrame
    /\ Len(debug_frame.impacts) = 1
    /\ Len(debug_frame.targets) = 1

\* The projector corners (0,0), (w,0), (w,h), (0,h) of a file mapped through
\* the inverse of the file's homography
CornersThroughInverse(file) ==
    LET w == file.projector_resolution.width
        h == file.projector_resolution.height
        Hinv == Inverse(to_numpy(file.homography_camera_to_projector))
    IN [top_left |-> perspectiveTransform(FPt(Pt(0, 0)), Hinv),
        top_right |-> perspectiveTransform(FPt(Pt(w, 0)), Hinv),
        bottom_right |-> perspectiveTransform(FPt(Pt(w, h)), Hinv),
        bottom_left |-> perspectiveTransform(FPt(Pt(0, h)), Hinv)]

\* C20: when load_calibration returns, the stored calibration is the file's
\* with screen bounds: the file's own bounds if it holds any, otherwise the
\* projector corners mapped through the inverse homography; and no
\* transform or bounds query changes the stored calibration afterwards.
C20_ScreenBoundsSetAtLoad ==
    [][
        /\ (outcome'.op = "load_calibration" /\ outcome'.status = "returned") =>
           (/\ calibration'.screen_bounds # NoBounds
            /\ \E file \in CalibrationFiles \ {Unreadable} :
                  calibration' =
                     IF file.screen_bounds # NoBounds
                     THEN file
                     ELSE [file EXCEPT !.screen_bounds = CornersThroughInverse(file)])
        /\ (outcome'.op \in Transforms \cup {"is_within_screen_bounds"}) =>
              (UNCHANGED calibration)
      ]_vars

\* A file without screen bounds was loaded and the bounds computed from its
\* homography, then a bounds query ran and the bounds are still there
C20_Witness ==
    /\ outcome.op = "is_within_screen_bounds"
    /\ is_calibrated(calibration)
    /\ calibration.homography_camera_to_projector = FileOld.homography_camera_to_projector
    /\ calibration.projector_resolution = FileOld.projector_resolution
    /\ calibration.screen_bounds = CornersThroughInverse(FileOld)
    /\ to_numpy_polygon(calibration.screen_bounds)
         = << Pt(400, 400), Pt(800, 400), Pt(800, 600), Pt(400, 600) >>

\* The config with every keyword that names one of its fields assigned, in
\* keyword order
RECURSIVE Overridden(_, _, _)
Overridden(cfg, kwargs, i) ==
    IF i > Len(kwargs)
    THEN cfg
    ELSE Overridden(IF kwargs[i][1] \in DOMAIN cfg
                    THEN [cfg EXCEPT ![kwargs[i][1]] = kwargs[i][2]]
                    ELSE cfg,
                    kwargs, i + 1)

\* C21: configure(**kwargs) returns, having assigned every keyword that
\* names a config field and ignored every keyword that names none, and
\* leaves the other fields and the detector's previous detections and
\* previous timestamp as they were.
C21_ConfigureAssignsFieldsIgnoresOthers ==
    [][\A kwargs \in ConfigureKwargs :
         ConfigureWith(kwargs) =>
            /\ outcome'.status = "returned"
            /\ detector_config' = Overridden(detector_config, kwargs, 1)
            /\ UNCHANGED <<prev_detections, prev_timestamp>>
      ]_vars

MatchStep(frame) == PollWith(frame, 10, MaxMatchPolls)

\* The detections a track may claim: not yet claimed and strictly less than
\* 100 pixels from the track's last position
Claimable(tracked, dets, claimed) ==
    {j \in 1..Len(dets) :
        /\ \A k \in 1..Len(claimed) : claimed[k] # j
        /\ Dist2(dets[j].position, tracked.last_detection.position) < 100 * 100}

\* The nearest claimable detection, the lowest index among equally near
\* ones; 0 if there is none
NearestClaimable(tracked, dets, claimed) ==
    LET cand == Claimable(tracked, dets, claimed)
        d(j) == Dist2(dets[j].position, tracked.last_detection.position)
    IN IF cand = {}
       THEN 0
       ELSE CHOOSE j \in cand :
               \A k \in cand : d(j) < d(k) \/ (d(j) = d(k) /\ j <= k)

\* The detection index each track claims when the tracks choose one after
\* the other in track-map order (0: none)
RECURSIVE GreedyClaims(_, _, _)
GreedyClaims(tracks, dets, claimed) ==
    IF Len(claimed) = Len(tracks)
    THEN claimed
    ELSE GreedyClaims(tracks, dets,
             Append(claimed,
                    NearestClaimable(tracks[Len(claimed) + 1], dets, claimed)))

\* C22: in a tracking cycle the tracks, in track-map order, each claim the
\* nearest not-yet-claimed detection strictly less than 100 pixels away
\* (lowest index on ties); a track that claims one lives on with it as its
\* last detection, a track that claims none is gone, no detection is claimed
\* twice, and every detection ends up in exactly one live track.
C22_GreedyNearestAssociation ==
    [][\A frame \in MatchFrames :
         MatchStep(frame) =>
            LET claims == GreedyClaims(tracked_objects, frame, << >>)
            IN /\ \A i, j \in 1..Len(claims) :
                     (i # j /\ claims[i] # 0) => claims[i] # claims[j]
               /\ \A i \in 1..Len(tracked_objects) :
                     LET id == tracked_objects[i].object_id
                     IN IF claims[i] = 0
                        THEN id \notin Ids(tracked_objects')
                        ELSE /\ id \in Ids(tracked_objects')
                             /\ TrackById(tracked_objects', id).last_detection
                                  = frame[claims[i]]
               /\ Len(tracked_objects') = Len(frame)
      ]_vars

\* Tracks 0 and 1 were created in one frame, track 0 at PA; in the next
\* frame the only detection was at (580, 500): track 0, 80 pixels away, took
\* it and track 1, which was nearer to it, is gone
C22_Witness ==
    /\ polls = 2
    /\ next_object_id = 2
    /\ Len(tracked_objects) = 1
    /\ tracked_objects[1].object_id = 0
    /\ tracked_objects[1].last_detection = MatchDetection(Pt(580, 500))
    /\ tracked_objects[1].velocity_history
         = << <<10, MatchDetection(PA).velocity>>,
              <<20, MatchDetection(Pt(580, 500)).velocity>> >>

\* C23: every detection no track claimed gets exactly one new track in the
\* same cycle: the new tracks follow the surviving ones in detection order,
\* their ids are next_object_id, next_object_id + 1, ..., each has the
\* detection as last detection, stationary_since unset, stationary_frames 0
\* and the one-entry velocity history (timestamp, detection velocity).
C23_UnclaimedDetectionsSpawnTracks ==
    [][\A frame \in MatchFrames :
         MatchStep(frame) =>
            LET claims == GreedyClaims(tracked_objects, frame, << >>)
                unclaimed == SelectSeq([j \in 1..Len(frame) |-> j],
                                LAMBDA j : \A i \in 1..Len(claims) : claims[i] # j)
                kept == Len(frame) - Len(unclaimed)
            IN /\ Len(tracked_objects') = kept + Len(unclaimed)
               /\ next_object_id' = next_object_id + Len(unclaimed)
               /\ \A n \in 1..Len(unclaimed) :
                     tracked_objects'[kept + n]
                       = [track_id |-> next_object_id + n - 1,
                          object_id |-> next_object_id + n - 1,
                          last_detection |-> frame[unclaimed[n]],
                          stationary_since |-> NoneT,
                          stationary_frames |-> 0,
                          velocity_history |->
                             << <<now', frame[unclaimed[n]].velocity>> >>]
      ]_vars

\* A track follows the detection at PA while the detection at PC, exactly
\* 100 pixels away and so claimed by no track, got the new track 1
C23_Witness ==
    /\ polls = 2
    /\ next_object_id = 2
    /\ Len(tracked_objects) = 2
    /\ tracked_objects[1].object_id = 0
    /\ tracked_objects[1].last_detection = MatchDetection(PA)
    /\ Len(tracked_objects[1].velocity_history) = 2
    /\ tracked_objects[2] = [track_id |-> 1,
                             object_id |-> 1,
                             last_detection |-> MatchDetection(PC),
                             stationary_since |-> NoneT,
                             stationary_frames |-> 0,
                             velocity_history |->
                                << <<20, MatchDetection(PC).velocity>> >>]

BounceStep(frame) == PollWith(frame, 10, MaxBouncePolls)

\* The angle between two velocities is at least 90 degrees: both speeds are
\* at least 1 (below that the direction change counts as 0) and the dot
\* product is not positive
TurnsAtLeast90(v1, v2) ==
    /\ Speed2(v1) >= 1
    /\ Speed2(v2) >= 1
    /\ v1.x * v2.x + v1.y * v2.y <= 0

\* The bounce condition of TRAJECTORY_CHANGE mode with its default
\* thresholds: previous speed >= 50 and (|dv| >= 100 or turn >= 90 degrees)
IsBounce(prev, cur) ==
    /\ Speed2(prev) >= 50 * 50
    /\ \/ Sq(cur.x - prev.x) + Sq(cur.y - prev.y) >= 100 * 100
       \/ TurnsAtLeast90(prev, cur)

\* C24: in TRAJECTORY_CHANGE mode a matched track emits an impact in a
\* cycle exactly when its previous speed is at least min_impact_velocity and
\* the velocity changed by at least velocity_change_threshold or turned by
\* at least direction_change_threshold; the impact carries the track's
\* previous position and previous velocity, and the track lives on with the
\* new detection.
C24_BounceConditionExact ==
    [][\A frame \in BounceFrames :
         (BounceStep(frame) /\ Len(frame) = 1 /\ Len(tracked_objects) = 1) =>
            LET tracked == tracked_objects[1]
                prev == tracked.last_detection
                det == frame[1]
            IN /\ Len(tracked_objects') = 1
               /\ tracked_objects'[1].object_id = tracked.object_id
               /\ tracked_objects'[1].last_detection = det
               /\ IF IsBounce(prev.velocity, det.velocity)
                  THEN /\ Len(impacts') = 1
                       /\ impacts'[1].position = prev.position
                       /\ impacts'[1].velocity_before = prev.velocity
                       /\ impacts'[1].timestamp = now'
                       /\ impacts'[1].track = tracked.object_id
                  ELSE impacts' = << >>
      ]_vars

\* A track seen at PA moving right at 60 turned by 90 degrees without a
\* velocity change of 100: the impact lies at PA with the old velocity and
\* the track follows the detection at PB
C24_Witness ==
    /\ polls = 2
    /\ Len(impacts) = 1
    /\ impacts[1].position = PA
    /\ impacts[1].velocity_before = Pt(60, 0)
    /\ Len(tracked_objects) = 1
    /\ tracked_objects[1].object_id = 0
    /\ tracked_objects[1].last_detection = Detection(PB, Pt(0, 60))

\* The detection moves slower than impact_velocity_threshold (10 pixels/s)
BelowImpactVelocity(det) == Speed2(det.velocity) < 10 * 10

\* C25: in STATIONARY mode a matched track's stationary_since is set in the
\* first cycle whose detection is below impact_velocity_threshold and
\* cleared in every cycle whose detection is not; an impact is emitted only
\* when the timer has run for at least impact_duration (15 ticks), carries
\* that duration, and the track is out of the live set in the same cycle;
\* every cycle recorded since stationary_since was below the threshold.
C25_StationaryTimerAndRetirement ==
    [][\A frame \in StationaryFrames, dt \in {5, 10} :
         (/\ PollWith(frame, dt, MaxStationaryPolls)
          /\ Len(frame) = 1 /\ Len(tracked_objects) = 1) =>
            LET tracked == tracked_objects[1]
                det == frame[1]
                since == tracked.stationary_since
                live == tracked.object_id \in Ids(tracked_objects')
                after == TrackById(tracked_objects', tracked.object_id)
            IN /\ ~BelowImpactVelocity(det) =>
                     (live /\ after.stationary_since = NoneT /\ impacts' = << >>)
               /\ (BelowImpactVelocity(det) /\ since = NoneT) =>
                     (live /\ after.stationary_since = now' /\ impacts' = << >>)
               /\ (BelowImpactVelocity(det) /\ since # NoneT /\ now' - since < 15) =>
                     (live /\ after.stationary_since = since /\ impacts' = << >>)
               /\ (BelowImpactVelocity(det) /\ since # NoneT /\ now' - since >= 15) =>
                     (/\ tracked_objects' = << >>
                      /\ Len(impacts') = 1
                      /\ impacts'[1].stationary_duration = now' - since
                      /\ impacts'[1].stationary_duration >= 15
                      /\ impacts'[1].position = det.position
                      /\ impacts'[1].track = tracked.object_id)
               /\ \A i \in 1..Len(tracked_objects') :
                     LET t == tracked_objects'[i]
                     IN t.stationary_since # NoneT =>
                           \A e \in 1..Len(t.velocity_history) :
                              t.velocity_history[e][1] >= t.stationary_since =>
                                 Speed2(t.velocity_history[e][2]) < 10 * 10
      ]_vars

\* The track's first matched frame was a moving one, so the timer started
\* only at the slow frame after it, at tick 25; the track was retired with
\* an impact when the timer had run for 15 ticks
C25_Witness ==
    /\ polls = 5
    /\ now = 40
    /\ tracked_objects = << >>
    /\ Len(impacts) = 1
    /\ impacts[1].stationary_duration = 15
    /\ impacts[1].track = 0

StuckStep(frame) == PollWith(frame, 10, MaxStuckPolls)

\* The detection moves slower than the stuck threshold (5 pixels/s)
BelowStuckThreshold(det) == Speed2(det.velocity) < 5 * 5

\* C26: in STUCK mode every cycle in which a track is matched adds 1 to its
\* stationary_frames if the detection is below the stuck threshold and sets
\* it to 0 if it is not, so the counter is the number of the most recent
\* consecutive matched cycles below the threshold; an impact is emitted for
\* a track only in a cycle that leaves its counter at stuck_confirm_frames
\* or more.  (A cycle that ends with an exception stops at the track that
\* raised: the tracks after it in the map are not matched in that cycle and
\* keep their counters.)
C26_StuckCounterCountsConsecutiveFrames ==
    [][\A frame \in StuckFrames :
         StuckStep(frame) =>
            LET claims == GreedyClaims(tracked_objects, frame, << >>)
                counter(i) == tracked_objects[i].stationary_frames
                stopped(i) == /\ claims[i] # 0
                              /\ BelowStuckThreshold(frame[claims[i]])
                              /\ outcome'.status = "raised"
                reached(i) == \A j \in 1..(i - 1) : ~stopped(j)
                after(i) == TrackById(tracked_objects', tracked_objects[i].object_id)
            IN /\ \A i \in 1..Len(tracked_objects) :
                     (reached(i) /\ claims[i] # 0) =>
                        after(i).stationary_frames =
                           IF BelowStuckThreshold(frame[claims[i]])
                           THEN counter(i) + 1
                           ELSE 0
               /\ \A i \in 1..Len(tracked_objects) :
                     ~reached(i) => after(i).stationary_frames = counter(i)
               /\ \A k \in 1..Len(impacts') :
                     TrackById(tracked_objects', impacts'[k].track).stationary_frames >= 3
      ]_vars

\* A track matched below the threshold in four consecutive cycles has
\* counted 4 frames
C26_Witness ==
    /\ polls = 5
    /\ Len(tracked_objects) = 1
    /\ tracked_objects[1].object_id = 0
    /\ tracked_objects[1].stationary_frames = 4

\* The point p is one of the contour's points
OnContour(contour, p) == \E i \in 1..Len(contour) : contour[i] = p

\* C28: with a contour of at least 3 points and a known camera center x,
\* _get_impact_point returns a point of the contour: one with the largest x
\* if the detection's x is strictly left of the center, one with the
\* smallest x otherwise (a detection exactly at the center included).
C28_ImpactPointIsContourExtreme ==
    (/\ impact_point # NoCall
     /\ Len(impact_point.contour) >= 3
     /\ camera_center_x # NoneT)
    => LET contour == impact_point.contour
           point == impact_point.point
       IN /\ OnContour(contour, point)
          /\ IF impact_point.detection_pos.x < camera_center_x
             THEN \A i \in 1..Len(contour) : contour[i].x <= point.x
             ELSE \A i \in 1..Len(contour) : contour[i].x >= point.x

\* A detection exactly at the camera center with a contour on both sides of
\* it got the leftmost contour point
C28_Witness ==
    /\ impact_point # NoCall
    /\ camera_center_x = 500
    /\ impact_point.detection_pos = Pt(500, 500)
    /\ impact_point.contour = << Pt(520, 500), Pt(480, 505), Pt(500, 495) >>
    /\ impact_point.point = Pt(480, 505)

\* Some live track has the object id
IsLive(id) == \E i \in 1..Len(tracked_objects) : tracked_objects[i].object_id = id

\* C29: only the configured impact policy ever acts.  In TRAJECTORY_CHANGE
\* mode no track has stationary_since set or stationary_frames above 0 and
\* the handled list is empty; in STATIONARY mode stationary_frames is 0 on
\* every track and the handled list is empty; in STUCK mode stationary_since
\* is unset on every track and the track of every impact of the last cycle
\* is still live (no track is removed because of an impact).
C29_OnlyConfiguredPolicyActs ==
    /\ impact_mode = "TRAJECTORY_CHANGE" =>
          /\ \A i \in 1..Len(tracked_objects) :
                /\ tracked_objects[i].stationary_since = NoneT
                /\ tracked_objects[i].stationary_frames = 0
          /\ handled_objects = << >>
    /\ impact_mode = "STATIONARY" =>
          /\ \A i \in 1..Len(tracked_objects) :
                tracked_objects[i].stationary_frames = 0
          /\ handled_objects = << >>
    /\ impact_mode = "STUCK" =>
          /\ \A i \in 1..Len(tracked_objects) :
                tracked_objects[i].stationary_since = NoneT
          /\ \A k \in 1..Len(impacts) : IsLive(impacts[k].track)

\* A STUCK backend whose policy has counted two frames on a live track
\* without starting the STATIONARY timer
C29_Witness ==
    /\ impact_mode = "STUCK"
    /\ \E i \in 1..Len(tracked_objects) :
          /\ tracked_objects[i].stationary_frames = 2
          /\ tracked_objects[i].stationary_since = NoneT

HistoryStep(frame, dt) == PollWith(frame, dt, MaxHistoryPolls)

HasNearPrevious(prev, pos) ==
    \E i \in 1..Len(prev) : Dist2(pos, prev[i].position) < 200 * 200

\* Previous detections at the smallest distance from the position
NearestPrevious(prev, pos) ==
    {i \in 1..Len(prev) :
        \A j \in 1..Len(prev) :
            Dist2(pos, prev[i].position) <= Dist2(pos, prev[j].position)}

\* C31: a detect() call returns one detection per blob; its velocity is
\* (0,0) on the first call, when the timestamp is not later than the
\* previous call's, when the previous call returned no detections, or when
\* the nearest previous detection is 200 px or more away, and otherwise the
\* displacement from a nearest detection of the immediately preceding call
\* divided by the elapsed time.
C31_DetectorVelocityFromPreviousCall ==
    [][\A frame \in ModeFrames(impact_mode) :
         (detector = "ColorBlobDetector" /\ FrameStep(frame)) =>
            /\ Len(prev_detections') = Len(frame)
            /\ \A k \in 1..Len(frame) :
                 LET pos == frame[k].position
                     det == prev_detections'[k]
                 IN /\ det.position = pos
                    /\ IF \/ prev_timestamp = NoneT
                          \/ now' <= prev_timestamp
                          \/ prev_detections = << >>
                          \/ ~HasNearPrevious(prev_detections, pos)
                       THEN det.velocity = Pt(0, 0)
                       ELSE \E i \in NearestPrevious(prev_detections, pos) :
                              /\ det.velocity.x * (now' - prev_timestamp) =
                                    (pos.x - prev_detections[i].position.x) * TicksPerSecond
                              /\ det.velocity.y * (now' - prev_timestamp) =
                                    (pos.y - prev_detections[i].position.y) * TicksPerSecond
      ]_vars


-----------------------------------------------------------------------------
DirectionStep(frame) == PollWith(frame, 10, MaxDirectionPolls)

\* The vectors point the same way / opposite ways
Parallel(v1, v2) ==
    v1.x * v2.y - v1.y * v2.x = 0 /\ v1.x * v2.x + v1.y * v2.y > 0

Opposite(v1, v2) ==
    v1.x * v2.y - v1.y * v2.x = 0 /\ v1.x * v2.x + v1.y * v2.y < 0

\* A matched track whose detection has come to rest emits an impact only
\* when the velocity changed by at least velocity_change_threshold
StopsDeadOnlyByMagnitude ==
    [][\A frame \in DirectionFrames :
         (/\ DirectionStep(frame)
          /\ Len(frame) = 1
          /\ Len(tracked_objects) = 1
          /\ Speed2(frame[1].velocity) < 1
          /\ impacts' # << >>)
         => LET prev_velocity == tracked_objects[1].last_detection.velocity
            IN /\ calculate_direction_change(prev_velocity, frame[1].velocity) = 0
               /\ Speed2(prev_velocity) >= Sq(velocity_change_threshold)
      ]_vars

\* C32 as stated: the direction change between previous and current
\* velocity is always in [0, 180] degrees, is 0 for parallel vectors and 180
\* for opposite ones, and is 0 whenever either magnitude is below 1 px/s, so
\* a projectile that stops dead triggers a TRAJECTORY_CHANGE impact only
\* through the velocity-change-magnitude criterion.
C32_DirectionChangeExact ==
    /\ [](direction_call # NoDirectionCall =>
            LET v1 == direction_call.v1
                v2 == direction_call.v2
                angle == direction_call.angle
            IN /\ angle >= 0
               /\ angle <= 180 * AngleUnit
               /\ Parallel(v1, v2) => angle = 0
               /\ Opposite(v1, v2) => angle = 180 * AngleUnit
               /\ (Speed2(v1) < 1 \/ Speed2(v2) < 1) => angle = 0)
    /\ StopsDeadOnlyByMagnitude

\* C32, amended: the direction change is always in [0, 180] degrees, lies
\* within 0.00001 degrees of 0 for parallel vectors and of 180 for opposite
\* ones (it is exactly 0 or 180 when both vectors lie along an axis), and is
\* 0 whenever either magnitude is below 1 px/s, so a projectile that stops
\* dead triggers a TRAJECTORY_CHANGE impact only through the
\* velocity-change-magnitude criterion.
C32_DirectionChangeWithinRounding ==
    /\ [](direction_call # NoDirectionCall =>
            LET v1 == direction_call.v1
                v2 == direction_call.v2
                angle == direction_call.angle
                exact == AxisAligned(v1) /\ AxisAligned(v2)
                rounding == IF exact THEN 0 ELSE AngleUnit \div 100000
            IN /\ angle >= 0
               /\ angle <= 180 * AngleUnit
               /\ Parallel(v1, v2) => angle <= rounding
               /\ Opposite(v1, v2) => angle >= 180 * AngleUnit - rounding
               /\ (Speed2(v1) < 1 \/ Speed2(v2) < 1) => angle = 0
               /\ exact => angle = calculate_direction_change(v1, v2))
    /\ StopsDeadOnlyByMagnitude

\* The direction change of (1, 2) and itself was computed: it is 0.0000012
\* degrees, not 0
C32_Witness ==
    /\ direction_call # NoDirectionCall
    /\ direction_call.v1 = Pt(1, 2)
    /\ direction_call.v2 = Pt(1, 2)
    /\ direction_call.angle = 12


-----------------------------------------------------------------------------
\* C33: after every tracking cycle the number of live tracks equals the
\* number of detections of that cycle minus the number of STATIONARY impacts
\* emitted in that cycle (so it equals the number of detections in
\* TRAJECTORY_CHANGE and STUCK modes); a cycle with zero detections empties
\* the track map and emits no impact.
C33_LiveTracksEqualDetections ==
    [][\A frame \in ModeFrames(impact_mode) :
         (FrameStep(frame) /\ detector = "ObjectDetector") =>
           /\ Len(tracked_objects') =
                 Len(frame) - (IF impact_mode = "STATIONARY"
                               THEN Len(impacts') ELSE 0)
           /\ impact_mode # "STATIONARY" => Len(tracked_objects') = Len(frame)
           /\ (frame = << >>) => (tracked_objects' = << >> /\ impacts' = << >>)
      ]_vars


-----------------------------------------------------------------------------
LatencyStep(frame) == PollWith(frame, 10, MaxLatencyPolls)

\* C34: no impact is emitted for a track in the cycle that creates it, and
\* the impacts of a cycle never outnumber the tracks live before it.  A
\* track starts with no timer and a counter of 0; a STATIONARY impact needs
\* a timer started in an earlier cycle (whatever impact_duration is, also
\* 0), so two matched cycles after the creating one; a STUCK impact, and
\* already the tip estimation that precedes it, needs a counter that has
\* reached stuck_confirm_frames - 1 before the cycle, and the counter grows
\* by at most one per cycle, so stuck_confirm_frames matched cycles.
C34_ImpactNeedsLaterMatchedCycles ==
    [][\A frame \in ModeFrames(impact_mode) :
         LatencyStep(frame) =>
           /\ Len(impacts') <= Len(tracked_objects)
           /\ \A k \in 1..Len(impacts') :
                /\ impacts'[k].track \in Ids(tracked_objects)
                /\ (impact_mode = "STATIONARY") =>
                      TrackById(tracked_objects, impacts'[k].track).stationary_since
                          # NoneT
                /\ (impact_mode = "STUCK") =>
                      TrackById(tracked_objects, impacts'[k].track).stationary_frames
                          >= stuck_confirm_frames - 1
           /\ \A j \in 1..Len(tracked_objects') :
                LET t == tracked_objects'[j]
                IN IF t.object_id \in Ids(tracked_objects)
                   THEN t.stationary_frames
                           <= TrackById(tracked_objects, t.object_id).stationary_frames + 1
                   ELSE t.stationary_since = NoneT /\ t.stationary_frames = 0
           /\ (outcome'.value = "AttributeError") =>
                 \E i \in 1..Len(tracked_objects) :
                    tracked_objects[i].stationary_frames >= stuck_confirm_frames - 1
      ]_vars

\* With impact_duration 0 the object seen at rest in three cycles fired in
\* the third: created in the first, timer started in the second
C34_Witness ==
    /\ impact_mode = "STATIONARY"
    /\ impact_duration = 0
    /\ polls = 3
    /\ Len(impacts) = 1
    /\ impacts[1].track = 0
    /\ impacts[1].stationary_duration = 10


-----------------------------------------------------------------------------
\* The tracks of the map with the detection strictly within the matching gate
WithinGate(tracks, det) ==
    {i \in 1..Len(tracks) :
        Dist2(det.position, tracks[i].last_detection.position) < Sq(MatchGate)}

\* C35: after every tracking cycle each key of the track map equals the
\* object_id of its track and the map iterates in strictly increasing id
\* (all ids below next_object_id), so during association an older track
\* picks its detection before any younger one: a single detection within the
\* gate of several tracks stays with the one of the lowest id.
C35_TrackMapOrderedById ==
    /\ [](/\ \A i \in 1..Len(tracked_objects) :
               /\ tracked_objects[i].track_id = tracked_objects[i].object_id
               /\ tracked_objects[i].object_id < next_object_id
          /\ \A i, j \in 1..Len(tracked_objects) :
               (i < j) => tracked_objects[i].object_id < tracked_objects[j].object_id)
    /\ [][\A frame \in MatchFrames :
            (/\ MatchStep(frame)
             /\ Len(frame) = 1
             /\ WithinGate(tracked_objects, frame[1]) # {})
            => LET near == WithinGate(tracked_objects, frame[1])
                   oldest == CHOOSE i \in near :
                                \A j \in near : tracked_objects[i].object_id
                                                   <= tracked_objects[j].object_id
               IN /\ Len(tracked_objects') = 1
                  /\ tracked_objects'[1].track_id = tracked_objects[oldest].object_id
                  /\ tracked_objects'[1].last_detection = frame[1]
         ]_vars

\* Tracks 0 and 1 were created in one frame, at PA and at (580, 500); the
\* single detection of the next frame, at (540, 500) and 40 pixels from
\* both, stayed with track 0
C35_Witness ==
    /\ polls = 2
    /\ next_object_id = 2
    /\ Len(tracked_objects) = 1
    /\ tracked_objects[1].track_id = 0
    /\ tracked_objects[1].last_detection = MatchDetection(Pt(540, 500))
    /\ tracked_objects[1].velocity_history
         = << <<10, MatchDetection(PA).velocity>>,
              <<20, MatchDetection(Pt(540, 500)).velocity>> >>


-----------------------------------------------------------------------------
ResetStep(frame) == PollWith(frame, 10, MaxResetPolls)

\* C37: reset_handled_objects() changes only the handled list: the track
\* map, every track's stationary_frames counter and next_object_id are
\* unchanged; consequently a projectile that is still visible with a counter
\* already at or above stuck_confirm_frames emits a new impact in the next
\* cycle in which it is matched below the stuck threshold.
C37_ResetRearmsVisibleProjectile ==
    /\ [][ResetHandledObjects =>
            /\ handled_objects' = << >>
            /\ tracked_objects' = tracked_objects
            /\ next_object_id' = next_object_id]_vars
    /\ [][\A frame \in StuckFrames :
            (/\ ResetStep(frame)
             /\ handled_objects = << >>
             /\ Len(tracked_objects) = 1
             /\ tracked_objects[1].stationary_frames >= stuck_confirm_frames
             /\ Len(frame) >= 1
             /\ Dist2(frame[1].position,
                      tracked_objects[1].last_detection.position) < Sq(MatchGate)
             /\ Speed2(frame[1].velocity) < Sq(stuck_stationary_threshold))
            => \E k \in 1..Len(impacts') :
                  impacts'[k].track = tracked_objects[1].object_id
         ]_vars


-----------------------------------------------------------------------------
UncalibratedStep(frame) == PollWith(frame, 10, MaxUncalibratedPolls)

\* C38: when a calibration manager is configured but has no calibration
\* loaded, poll() never raises: the bounds test lets every impact through,
\* the not-calibrated error of camera_to_game is caught inside the backend,
\* each impact is dropped, and poll() returns no hit events while the
\* tracking state still advances (every detection of the cycle is tracked).
C38_UncalibratedPollDropsImpacts ==
    [][\A frame \in ModeFrames(impact_mode) :
         (UncalibratedStep(frame) /\ has_manager /\ calibration = NoCalibration) =>
            /\ outcome'.status = "returned"
            /\ events' = << >>
            /\ \A k \in 1..Len(impacts') :
                  /\ is_within_screen_bounds(has_manager, calibration,
                                             impacts'[k].position)
                  /\ ~backend_camera_to_game(has_manager, calibration, H_cam_to_proj,
                                             impacts'[k].position).ok
            /\ \A k \in 1..Len(frame) :
                  frame[k] \in {tracked_objects'[i].last_detection :
                                   i \in 1..Len(tracked_objects')}
                  \/ \E j \in 1..Len(impacts') : impacts'[j].position = frame[k].position
      ]_vars


-----------------------------------------------------------------------------
\* C39: after any sequence of load_calibration and calibrate_from_detections
\* calls, also ones that end with an exception, whenever is_calibrated() is
\* true the cached forward and inverse homographies are both set, are
\* inverses of each other and equal the homography of the stored calibration
\* data; a failed call leaves the previously usable calibration intact.
C39_CachedHomographiesConsistent ==
    /\ [](is_calibrated(calibration) =>
            /\ H_cam_to_proj # NoMatrix
            /\ H_proj_to_cam # NoMatrix
            /\ ~IsSingular(H_cam_to_proj)
            /\ H_proj_to_cam = Inverse(H_cam_to_proj)
            /\ H_cam_to_proj = to_numpy(calibration.homography_camera_to_projector))
    /\ [][(/\ outcome'.op \in {"load_calibration", "calibrate_from_detections"}
           /\ outcome'.status = "raised"
           /\ outcome' # outcome)
          => UNCHANGED managerVars]_vars

=============================================================================
